---- MODULE Spec2Model ----
(***************************************************************************)
(* A model of the clair.ai study assistant: the orchestration services     *)
(* (quiz generation, adaptive quiz generation, two-step image processing), *)
(* the local-storage collections, the useQuiz hook, the schema normalizer  *)
(* (parseQuizQuestions) and the JSON repair step (aggressiveJSONRepair).   *)
(***************************************************************************)
EXTENDS Integers, Sequences, FiniteSets, TLC

VARIABLES
  quizStore,      \* localStorage["notesQuizResults"]: the stored quiz list
  resultStore,    \* localStorage["notesAnalysisResults"]: the stored analysis results
  clock,          \* Date.now()
  ops,            \* the quiz-service calls in flight or finished, by slot
  img,            \* the image-processing call
  quizResult,     \* useQuiz state: <<>> for null, else <<the quiz>>
  currentQuestionIndex,
  userAnswers,
  quizCompleted,
  norm,           \* the normalizer run under study: input and output
  rep,            \* the repair run under study: input features and outcome
  txt,            \* the repair of a text under study: the text and its results
  tree,           \* the topic-tree transform under study: input and output
  profile,        \* the last quiz request: performance profile and prompt
  generatingQuiz, \* useQuiz state: the flag shown while a quiz is generated
  images,         \* useImageUpload state: the selected images with their status
  uploading,      \* useImageUpload state: the flag shown while images are processed
  uploads         \* the calls of processWithGemini / processBatchWithGemini

svcVars  == <<quizStore, resultStore, clock, ops, img>>
hookVars == <<quizResult, currentQuestionIndex, userAnswers, quizCompleted>>
pageVars == <<generatingQuiz, images, uploading, uploads>>
vars     == <<quizStore, resultStore, clock, ops, img, quizResult,
              currentQuestionIndex, userAnswers, quizCompleted, norm, rep, txt, tree, profile, pageVars>>

----------------------------------------------------------------------------
(* Bounds of the model *)
MaxOps     == 2   \* service-call slots
MaxImages  == 2   \* images in one batch
MaxClock   == 1   \* ticks of Date.now()
MaxLen     == 2   \* questions in a normalizer input
MaxBlocks  == 2   \* question blocks the emergency extraction finds
MaxBody    == 3   \* characters of a text under repair, without its wrapping
MaxValue   == 2   \* characters of a string field of a question
MaxTopics  == 2   \* topics of a notes structure
MaxQuizzes == 2   \* stored quizzes a performance profile is built from
MaxQuestions == 3 \* questions of such a quiz
MaxStored  == 2   \* records stored in a collection, one after the other

Undef == "undefined"          \* a missing property / JavaScript undefined
Null  == "null"               \* JavaScript null

OpIds == 1..MaxOps

QuestionIds == {"q1", "q2"}
OptionIds   == {"a", "b"}
AnswerKeys  == QuestionIds \cup {Undef}   \* userAnswers[undefined] is a key too
NoAnswers   == [k \in AnswerKeys |-> Undef]

\* No parsing run under study
NoOutcome == [status |-> "none", parses |-> FALSE, array |-> FALSE]
RepIdle == [entry |-> "none", pc |-> "idle", fenced |-> FALSE, repaired |-> FALSE,
            parsed |-> "none", message |-> "none", blocks |-> 0,
            repair |-> NoOutcome, ret |-> NoOutcome]

\* No text under repair, no tree under transformation
NoText   == [status |-> "none", text |-> <<>>]
TxtIdle  == [pc |-> "idle", input |-> <<>>, guessed |-> FALSE, once |-> NoText,
             twice |-> NoText]
TreeIdle == [pc |-> "idle", input |-> <<>>, out |-> <<>>]

\* No quiz request made: no performance profile, no prompt
NoProfile   == [isNull |-> TRUE, questionPerformance |-> <<>>]
NoPrompt    == [kind |-> "none", weakTopics |-> {}, masteredTopics |-> {}]
ProfileIdle == [pc |-> "idle", sourceId |-> "none", service |-> "none",
                performanceProfile |-> NoProfile, prompt |-> NoPrompt]

\* No quiz generation and no image processing started in the page
PageIdle ==
  /\ generatingQuiz = FALSE
  /\ images = <<>>
  /\ uploading = FALSE
  /\ uploads = <<>>

\* No normalizer run under study
NormIdle == [phase |-> "idle", top |-> "other", items |-> <<>>, out |-> <<>>,
             threw |-> FALSE]

----------------------------------------------------------------------------
(* Response texts of the external model.  A text is modelled by what the   *)
(* parser makes of it: empty, prose that is not JSON, or the JSON array it *)
(* encodes.                                                                *)
Question(id, ca) == [id |-> id, correctAnswer |-> ca, nul |-> FALSE]
NullItem         == [id |-> Undef, correctAnswer |-> Undef, nul |-> TRUE]

QuizTexts ==
  { [kind |-> "empty", items |-> <<>>],
    [kind |-> "prose", items |-> <<>>],
    [kind |-> "array", items |-> <<Question("q1", "a"), Question("q2", "b")>>],
    [kind |-> "array", items |-> <<Question("q1", "a"), Question("q1", "b")>>],
    [kind |-> "array", items |-> <<Question(Undef, "a"), Question(Undef, Undef)>>],
    [kind |-> "array", items |-> <<Question("q1", "a"), NullItem>>] }

\* questionParser.js parseQuestions: [] for a falsy or unparseable text, [] when
\* the map over the parsed value throws (a null element), else the parsed
\* elements as they are: no id is assigned and none is checked.
parseQuestions(text) ==
  IF text.kind # "array" THEN <<>>
  ELSE IF \E i \in 1..Len(text.items) : text.items[i].nul THEN <<>>
  ELSE text.items

----------------------------------------------------------------------------
(* Local storage *)
NoScore == [obtained |-> 0, total |-> 0, percentage |-> 0, set |-> FALSE]

storeQuizResult_prepend(list, quiz, quota) ==
  IF quota THEN list ELSE <<quiz>> \o list

\* storageService.js storeQuizResult: read the list, append, write it back.
\* setItem may throw (quota): the list is then left as it was.
storeQuizResult(list, quiz, quota) ==
  IF quota THEN list ELSE Append(list, quiz)

\* storageService.js storeAnalysisResult
storeAnalysisResult(list, result, quota) ==
  IF quota THEN list ELSE Append(list, result)

----------------------------------------------------------------------------
(* Service calls *)
NoRet  == [success |-> FALSE, error |-> Undef, id |-> 0]
Fail(msg) == [success |-> FALSE, error |-> msg, id |-> 0]
Ok(id)    == [success |-> TRUE, error |-> Undef, id |-> id]

FreeOp == [kind |-> "none", pc |-> "free", arg |-> Undef, httpOk |-> FALSE,
           n |-> 0, ext |-> <<>>, done |-> <<>>, structCalls |-> 0,
           structInput |-> <<>>, ret |-> NoRet]

Keys == {"valid", "missing", "placeholder"}
\* quizGenerationService.js:20, apiUtils getApiConfig: the key check
KeyInvalid(key) == key = "missing" \/ key = "placeholder"

\* An analysis result handed to a quiz service: none, one without any of
\* structuredData / description / markdown, or a usable one.
SourceIds == {"r1"}
AnalysisArgs == {[id |-> Undef, given |-> FALSE, hasData |-> FALSE]}
                \cup [id : SourceIds, given : {TRUE}, hasData : BOOLEAN]


\* The catch at the service boundary (quizGenerationService.js 145-151,
\* adaptiveQuizService.js 361-367, processImages 577-582): whatever was thrown
\* inside is returned as {success:false, error}.
OuterCatch_rethrow(op, msg) == [op EXCEPT !.pc = "rejected"]
OuterCatch(op, msg) == [op EXCEPT !.pc = "returned", !.ret = Fail(msg)]

QuizKinds == {"quiz", "adaptive"}

\* The quiz record built at quizGenerationService.js 121-128 and
\* adaptiveQuizService.js 317-339.
NewQuiz(kind, id, src, text) ==
  LET qs == parseQuestions(text) IN
  [ id |-> id, sourceId |-> src, quizQuestions |-> qs,
    attempted |-> FALSE, isAdaptive |-> (kind = "adaptive"),
    questionScores |->
      IF kind = "adaptive"
      THEN [i \in 1..Len(qs) |->
              [questionNumber |-> i, correct |-> FALSE, userAnswer |-> Null,
               correctAnswer |-> qs[i].correctAnswer, score |-> 0]]
      ELSE <<>>,
    score |-> IF kind = "adaptive"
              THEN [obtained |-> 0, total |-> Len(qs), percentage |-> 0, set |-> TRUE]
              ELSE NoScore ]

\* generateQuizFromNotes / generateAdaptiveQuiz up to the fetch: the key check,
\* the analysis-data check, then the request is sent.
CallQuizService(o, kind, key, arg) ==
  /\ ops[o].pc = "free"
  /\ img.pc = "free"            \* the two pipelines are explored one at a time
  /\ LET op == [FreeOp EXCEPT !.kind = kind, !.arg = arg.id] IN
     ops' = [ops EXCEPT ![o] =
       IF KeyInvalid(key) THEN OuterCatch(op, "No valid API key provided")
       ELSE IF ~arg.given \/ ~arg.hasData
         THEN OuterCatch(op, "No valid analysis data provided")
       ELSE [op EXCEPT !.pc = "fetch"]]
  /\ UNCHANGED <<quizStore, resultStore, clock, img>>

FetchOutcomes == {"network", "http", "ok"}

\* await fetch(...): a rejection is rethrown by the inner catch and returned by
\* the outer one; a response, ok or not, is then read with response.json().
FetchSettle(o, outcome) ==
  /\ ops[o].pc = "fetch"
  /\ ops[o].kind \in QuizKinds
  /\ ops' = [ops EXCEPT ![o] =
       IF outcome = "network" THEN OuterCatch(@, "API request failed")
       ELSE [@ EXCEPT !.pc = "json", !.httpOk = (outcome = "ok")]]
  /\ UNCHANGED <<quizStore, resultStore, clock, img>>

EmptyText == [kind |-> "empty", items |-> <<>>]

\* The response body: unreadable, without candidates, or with a text.
QuizBodies == [readable : {FALSE}, cands : {FALSE}, text : {EmptyText}]
              \cup [readable : {TRUE}, cands : {FALSE}, text : {EmptyText}]
              \cup [readable : {TRUE}, cands : {TRUE}, text : QuizTexts]

\* Whether the code after response.json() throws: a non-ok status, an
\* unreadable body, and for generateQuizFromNotes the log line 95 that reads
\* data.candidates[0] before the guarded read.
QuizBodyThrows(op, body) ==
  \/ ~op.httpOk
  \/ ~body.readable
  \/ op.kind = "quiz" /\ ~body.cands

\* The rest of the stage after response.json(): the checks, then parse, build
\* the quiz, store it and return it.  The result is the finished call and the
\* stored list.
QuizStage_storeFirst(op, body, list, quota, now) ==
  LET quiz == NewQuiz(op.kind, now, op.arg, body.text)
      kept == storeQuizResult(list, quiz, quota) IN
  IF QuizBodyThrows(op, body)
  THEN [op |-> OuterCatch(op, "API request failed"), list |-> kept]
  ELSE [op |-> [op EXCEPT !.pc = "returned", !.ret = Ok(quiz.id)], list |-> kept]
QuizStage(op, body, list, quota, now) ==
  IF QuizBodyThrows(op, body)
  THEN [op |-> OuterCatch(op, "API request failed"), list |-> list]
  ELSE LET quiz == NewQuiz(op.kind, now, op.arg, body.text) IN
       [op |-> [op EXCEPT !.pc = "returned", !.ret = Ok(quiz.id)],
        list |-> storeQuizResult(list, quiz, quota)]

JsonSettle(o, body, quota) ==
  /\ ops[o].pc = "json"
  /\ ops[o].kind \in QuizKinds
  /\ LET r == QuizStage(ops[o], body, quizStore, quota, clock) IN
       /\ ops' = [ops EXCEPT ![o] = r.op]
       /\ quizStore' = r.list
  /\ UNCHANGED <<resultStore, clock, img>>

----------------------------------------------------------------------------
(* Two-step image processing: processImages (the shared core of the single *)
(* and batch entry points) and the earlier processBatchImagesWithTwoStep-  *)
(* Gemini, which differ in the page headers and in what they store.        *)
ImageKinds == {"processImages", "processBatch"}
Contents   == {"x", "y"}                        \* extraction texts
ExtOutcomes == {"network", "http", "empty"} \cup Contents

\* imageFiles.map(extractContentFromImage): every call is made, and runs up to
\* its first await, before the map returns.
StartExtractions_sequential(n) ==
  [i \in 1..n |-> [st |-> IF i = 1 THEN "pending" ELSE "notstarted", val |-> Undef]]
StartExtractions(n) == [i \in 1..n |-> [st |-> "pending", val |-> Undef]]

\* extractContentFromImage: resolves with the text, or rejects on a network
\* error, a non-ok status or an empty text.
ExtractResult(outcome) ==
  IF outcome \in Contents THEN [st |-> "resolved", val |-> outcome]
  ELSE [st |-> "rejected", val |-> Undef]

\* Promise.all: rejected as soon as one promise is, resolved when all are, with
\* the values in the order of the promises.
PromiseAllRejected(ext) == \E i \in 1..Len(ext) : ext[i].st = "rejected"
PromiseAllResolved(ext) == \A i \in 1..Len(ext) : ext[i].st = "resolved"
PromiseAllValues_completionOrder(ext, done) == [k \in 1..Len(done) |-> ext[done[k]].val]
PromiseAllValues(ext, done) == [i \in 1..Len(ext) |-> ext[i].val]

\* The structuring input: the contents under "--- PAGE i ---" headers joined
\* by blank lines; processImages passes a single image's text bare (page 0).
CombinedContent(kind, contents) ==
  IF kind = "processImages" /\ Len(contents) = 1
  THEN <<[page |-> 0, content |-> contents[1]]>>
  ELSE [i \in 1..Len(contents) |-> [page |-> i, content |-> contents[i]]]

\* processImages 525-544 / processBatchImagesWithTwoStepGemini 796-822: the
\* input check, the key check, then all extractions are started.
CallProcessImages(kind, key, n) ==
  /\ img.pc = "free"
  /\ \A o \in OpIds : ops[o].pc = "free"   \* one pipeline at a time
  /\ LET op == [FreeOp EXCEPT !.kind = kind, !.n = n] IN
     img' = IF n = 0 THEN OuterCatch(op, "No images provided for processing")
            ELSE IF KeyInvalid(key) THEN OuterCatch(op, "No valid API key provided")
            ELSE [op EXCEPT !.pc = "extracting", !.ext = StartExtractions(n)]
  /\ UNCHANGED <<quizStore, resultStore, clock, ops>>

\* One extraction call settles; it does so whether or not the batch has
\* already failed on another one.
ExtSettle(i, outcome) ==
  /\ i \in 1..Len(img.ext)
  /\ img.ext[i].st = "pending"
  /\ img' = [img EXCEPT !.ext[i] = ExtractResult(outcome), !.done = Append(@, i)]
  /\ UNCHANGED <<quizStore, resultStore, clock, ops>>

\* await Promise.all(...) rejects: the catch returns the failure.
ExtractionsFailed ==
  /\ img.pc = "extracting"
  /\ PromiseAllRejected(img.ext)
  /\ img' = OuterCatch(img, "API error in content extraction")
  /\ UNCHANGED <<quizStore, resultStore, clock, ops>>

\* await Promise.all(...) resolves: the contents are combined and the one
\* structuring call is made.
ExtractionsDone ==
  /\ img.pc = "extracting"
  /\ PromiseAllResolved(img.ext)
  /\ img' = [img EXCEPT
       !.pc = "structuring",
       !.structCalls = @ + 1,
       !.structInput = CombinedContent(img.kind, PromiseAllValues(img.ext, img.done))]
  /\ UNCHANGED <<quizStore, resultStore, clock, ops>>

StructOutcomes == {"network", "http", "unreadable", "nocandidates", "prose",
                   "json", "json_nulltopic"}

StructThrows_proseThrows(kind, outcome) ==
  outcome \in {"network", "http", "unreadable", "nocandidates", "prose", "json_nulltopic"}

\* Whether the code after the structuring call throws.  processImages reads
\* the text with extractTextFromResponse, which throws on an empty one; the
\* earlier batch function keeps an empty or unparseable text and throws only
\* while transforming a tree with a null topic.
StructThrows(kind, outcome) ==
  \/ outcome \in {"network", "http", "unreadable"}
  \/ kind = "processImages" /\ outcome = "nocandidates"
  \/ kind = "processBatch" /\ outcome = "json_nulltopic"

\* The analysis result built at createAndStoreResult 507-513 and at
\* processBatchImagesWithTwoStepGemini 956-980.
NewResult(op, outcome, id) ==
  [ id |-> id, text |-> outcome, pages |-> op.n,
    originalExtraction |-> op.structInput,
    structuredData |->
      IF op.kind = "processImages" THEN Undef
      ELSE IF outcome = "json" THEN "tree" ELSE Null ]

\* The rest of the stage after the structuring call: the result is stored only
\* after everything that can throw.
ImageStage(op, outcome, list, quota, now) ==
  IF StructThrows(op.kind, outcome)
  THEN [op |-> OuterCatch(op, "API error in structuring"), list |-> list]
  ELSE [op |-> [op EXCEPT !.pc = "returned", !.ret = Ok(IF quota THEN 0 ELSE now)],
        list |-> storeAnalysisResult(list, NewResult(op, outcome, now), quota)]

StructSettle(outcome, quota) ==
  /\ img.pc = "structuring"
  /\ LET r == ImageStage(img, outcome, resultStore, quota, clock) IN
       /\ img' = r.op
       /\ resultStore' = r.list
  /\ UNCHANGED <<quizStore, clock, ops>>

\* Date.now() advances between events.
Tick ==
  /\ clock < MaxClock
  /\ clock' = clock + 1
  /\ UNCHANGED <<quizStore, resultStore, ops, img>>

----------------------------------------------------------------------------
(* The service specification: calls of the three services in flight at once *)
HookIdle ==
  /\ quizResult = <<>>
  /\ currentQuestionIndex = 0
  /\ userAnswers = NoAnswers
  /\ quizCompleted = FALSE

Init ==
  /\ quizStore = <<>>
  /\ resultStore = <<>>
  /\ clock = 0
  /\ ops = [o \in OpIds |-> FreeOp]
  /\ img = FreeOp
  /\ HookIdle
  /\ norm = NormIdle
  /\ rep = RepIdle
  /\ txt = TxtIdle
  /\ tree = TreeIdle
  /\ profile = ProfileIdle
  /\ PageIdle

SvcNext ==
  \/ \E o \in OpIds, kind \in QuizKinds, key \in Keys, arg \in AnalysisArgs :
       CallQuizService(o, kind, key, arg)
  \/ \E o \in OpIds, outcome \in FetchOutcomes : FetchSettle(o, outcome)
  \/ \E o \in OpIds, body \in QuizBodies, quota \in BOOLEAN : JsonSettle(o, body, quota)
  \/ \E kind \in ImageKinds, key \in Keys, n \in 0..MaxImages :
       CallProcessImages(kind, key, n)
  \/ \E i \in 1..MaxImages, outcome \in ExtOutcomes : ExtSettle(i, outcome)
  \/ ExtractionsFailed
  \/ ExtractionsDone
  \/ \E outcome \in StructOutcomes, quota \in BOOLEAN : StructSettle(outcome, quota)
  \/ Tick

Next == SvcNext /\ UNCHANGED <<hookVars, norm, rep, txt, tree, profile, pageVars>>

Spec == Init /\ [][Next]_vars

----------------------------------------------------------------------------
(* Claims about the services *)

ReturnsSuccess(before, after) ==
  before.pc # "returned" /\ after.pc = "returned" /\ after.ret.success

\* C2: a stage whose external call fails (network rejection, HTTP error
\* status, empty extraction text, missing or placeholder key) persists
\* nothing: a step changes a stored collection only if it is the step in which
\* a call returns success, so no step of a call that ends in failure writes.
C2_FailurePersistsNothing ==
  [][ (quizStore' # quizStore \/ resultStore' # resultStore) =>
        \/ \E o \in OpIds : ReturnsSuccess(ops[o], ops'[o])
        \/ ReturnsSuccess(img, img') ]_vars

\* A quiz call has failed on its external call while an earlier quiz is stored.
C2_Witness ==
  \E o \in OpIds :
    /\ ops[o].pc = "returned"
    /\ ops[o].ret.error = "API request failed"
    /\ Len(quizStore) = 1

\* C3: the services never throw or reject: a finished call has returned a
\* value, and a value that is not a success carries an error message.
Settled(op) ==
  /\ op.pc # "rejected"
  /\ op.pc = "returned" => (op.ret.success \/ op.ret.error # Undef)

C3_NeverRejects == Settled(img) /\ \A o \in OpIds : Settled(ops[o])

\* A call of generateQuizFromNotes got a response with an ok status that it
\* could not use, and has returned the error raised on it as a value.
C3_Witness ==
  \E o \in OpIds :
    /\ ops[o].kind = "quiz"
    /\ ops[o].httpOk
    /\ ops[o].pc = "returned"
    /\ ops[o].ret = Fail("API request failed")

\* C4: in a batch all extraction calls are started before any is awaited, the
\* structuring call is issued at most once and only after every extraction
\* has resolved, and never when one has failed.
C4_FireAllAwaitAll ==
  /\ img.pc = "extracting" =>
       /\ Len(img.ext) = img.n /\ img.n >= 1
       /\ \A i \in 1..img.n : img.ext[i].st # "notstarted"
  /\ img.structCalls <= 1
  /\ img.structCalls = 1 => PromiseAllResolved(img.ext)
  /\ PromiseAllRejected(img.ext) => img.structCalls = 0
  /\ (img.pc = "structuring" \/ (img.pc = "returned" /\ img.ret.success))
       => img.structCalls = 1

\* Two images, both extractions resolved, the structuring call in flight.
C4_Witness == img.pc = "structuring" /\ img.n = 2 /\ img.structCalls = 1

\* C5: for n > 1 images the structuring input is the extraction outputs in
\* the order of the images, block i under the header of page i, whatever the
\* order in which the calls completed.
C5_PagesInImageOrder ==
  (img.structCalls = 1 /\ img.n > 1) =>
     img.structInput = [i \in 1..img.n |-> [page |-> i, content |-> img.ext[i].val]]

\* The second image's extraction completed first, with a different text.
C5_Witness ==
  /\ img.structCalls = 1
  /\ img.n = 2
  /\ img.done = <<2, 1>>
  /\ img.ext[1].val # img.ext[2].val

----------------------------------------------------------------------------
(* The useQuiz hook over the stored quiz list *)

Truthy(v) == v # Undef /\ v # Null

NaN == -1
\* Math.round((totalScore / length) * 100)
Percentage(obtained, total) ==
  IF total = 0 THEN NaN ELSE (200 * obtained + total) \div (2 * total)

\* handleNextQuestion 176-188: one score entry per question, correct when the
\* recorded answer is strictly equal to the question's correctAnswer.
QuestionScores(questions, answers) ==
  [i \in 1..Len(questions) |->
     LET ua == answers[questions[i].id]
         isCorrect == ua = questions[i].correctAnswer IN
     [questionNumber |-> i, correct |-> isCorrect, userAnswer |-> ua,
      correctAnswer |-> questions[i].correctAnswer,
      score |-> IF isCorrect THEN 1 ELSE 0]]

RECURSIVE TotalScore(_)
TotalScore(scores) ==
  IF scores = <<>> THEN 0 ELSE scores[1].score + TotalScore(Tail(scores))

\* handleNextQuestion 192-205: the quiz held by the hook, marked attempted.
UpdatedQuiz(quiz, answers) ==
  LET scores == QuestionScores(quiz.quizQuestions, answers)
      total  == Len(quiz.quizQuestions) IN
  [quiz EXCEPT
     !.attempted = TRUE,
     !.questionScores = scores,
     !.score = [obtained |-> TotalScore(scores), total |-> total,
                percentage |-> Percentage(TotalScore(scores), total),
                set |-> TRUE]]

UpdatedQuizzes_onlyCompleted(list, quiz) == <<quiz>>

\* handleNextQuestion 211-222: the stored list is read again and every record
\* with the quiz's id is replaced.
UpdatedQuizzes(list, quiz) ==
  [i \in 1..Len(list) |-> IF list[i].id = quiz.id THEN quiz ELSE list[i]]

handleNextQuestion ==
  /\ quizResult # <<>>
  /\ LET quiz == quizResult[1] IN
     IF currentQuestionIndex < Len(quiz.quizQuestions) - 1
     THEN /\ currentQuestionIndex' = currentQuestionIndex + 1
          /\ UNCHANGED <<quizResult, userAnswers, quizCompleted, quizStore>>
     ELSE IF ~quizCompleted
     THEN LET updatedQuiz == UpdatedQuiz(quiz, userAnswers) IN
          /\ quizStore' = UpdatedQuizzes(quizStore, updatedQuiz)
          /\ quizResult' = <<updatedQuiz>>
          /\ quizCompleted' = TRUE
          /\ UNCHANGED <<currentQuestionIndex, userAnswers>>
     ELSE UNCHANGED <<hookVars, quizStore>>
  /\ UNCHANGED <<resultStore, clock, ops, img, norm, rep, txt, tree, profile, pageVars>>

handlePreviousQuestion ==
  /\ currentQuestionIndex > 0
  /\ currentQuestionIndex' = currentQuestionIndex - 1
  /\ UNCHANGED <<quizResult, userAnswers, quizCompleted>>
  /\ UNCHANGED <<svcVars, norm, rep, txt, tree, profile, pageVars>>

\* handleAnswerSelect(currentQuestion.id, option.id), as QuizView calls it
handleAnswerSelect(answerId) ==
  /\ quizResult # <<>>
  /\ currentQuestionIndex < Len(quizResult[1].quizQuestions)
  /\ LET questionId == quizResult[1].quizQuestions[currentQuestionIndex + 1].id IN
     userAnswers' = [userAnswers EXCEPT ![questionId] = answerId]
  /\ UNCHANGED <<quizResult, currentQuestionIndex, quizCompleted>>
  /\ UNCHANGED <<svcVars, norm, rep, txt, tree, profile, pageVars>>

resetQuiz ==
  /\ currentQuestionIndex' = 0
  /\ userAnswers' = NoAnswers
  /\ quizCompleted' = FALSE
  /\ UNCHANGED quizResult
  /\ UNCHANGED <<svcVars, norm, rep, txt, tree, profile, pageVars>>

\* loadQuiz 290-301: the answers of the earlier attempt, entry by entry; a
\* later entry for the same question id overwrites an earlier one.
PreviousAnswers(quiz) ==
  [k \in AnswerKeys |->
     LET hits == { i \in 1..Len(quiz.questionScores) :
                     /\ Truthy(quiz.questionScores[i].userAnswer)
                     /\ i <= Len(quiz.quizQuestions)
                     /\ quiz.quizQuestions[i].id = k } IN
     IF hits = {} THEN Undef
     ELSE quiz.questionScores[CHOOSE i \in hits : \A j \in hits : j <= i].userAnswer]

\* loadQuiz(quiz) with a quiz read from the stored list (QuizPage)
loadQuiz(i) ==
  /\ i \in 1..Len(quizStore)
  /\ LET quiz == quizStore[i] IN
     /\ quizResult' = <<quiz>>
     /\ IF quiz.attempted
        THEN /\ quizCompleted' = TRUE
             /\ userAnswers' = PreviousAnswers(quiz)
             /\ UNCHANGED currentQuestionIndex
        ELSE /\ currentQuestionIndex' = 0
             /\ userAnswers' = NoAnswers
             /\ quizCompleted' = FALSE
  /\ UNCHANGED <<svcVars, norm, rep, txt, tree, profile, pageVars>>

\* The stored lists the hook is started on: one or two quizzes as the quiz
\* services create them, with ids of different instants.
ParsedTexts == { t \in QuizTexts : t.kind = "prose" \/ parseQuestions(t) # <<>> }
StoredQuizLists ==
  { <<NewQuiz("quiz", 0, "r1", t)>> : t \in ParsedTexts }
  \cup { <<NewQuiz("quiz", 0, "r1", t), NewQuiz(k, 1, "r1", u)>> :
           t \in ParsedTexts, k \in QuizKinds, u \in ParsedTexts }

InitQuiz ==
  /\ quizStore \in StoredQuizLists
  /\ resultStore = <<>>
  /\ clock = MaxClock
  /\ ops = [o \in OpIds |-> FreeOp]
  /\ img = FreeOp
  /\ HookIdle
  /\ norm = NormIdle
  /\ rep = RepIdle
  /\ txt = TxtIdle
  /\ tree = TreeIdle
  /\ profile = ProfileIdle
  /\ PageIdle

NextQuiz ==
  \/ \E i \in 1..2 : loadQuiz(i)
  \/ resetQuiz
  \/ \E a \in OptionIds : handleAnswerSelect(a)
  \/ handlePreviousQuestion
  \/ handleNextQuestion

SpecQuiz == InitQuiz /\ [][NextQuiz]_vars

\* C1: once the stored record of a quiz has attempted = true, no sequence of
\* useQuiz operations writes that record again: the stored record is the same
\* after every later step.
C1_AttemptedRecordImmutable ==
  [][ \A i \in 1..Len(quizStore) :
        quizStore[i].attempted => quizStore'[i] = quizStore[i] ]_vars

\* A finished quiz with a point scored is stored, and Review Questions
\* (resetQuiz) has put the hook back into answering mode on it.
C1_Witness ==
  /\ quizResult # <<>>
  /\ quizResult[1].attempted
  /\ ~quizCompleted
  /\ \E i \in 1..Len(quizStore) :
       quizStore[i] = quizResult[1] /\ quizStore[i].score.obtained > 0

----------------------------------------------------------------------------
(* The schema normalizer: quizSchema.js parseQuizQuestions on parsed data *)

\* The options of a raw question: absent, an array of {id, text} objects, or
\* something no branch of the options union accepts (a number, say).
NoOptions  == [form |-> "absent", ids |-> <<>>]
RawOptions == { NoOptions,
                [form |-> "objects", ids |-> <<"a", "b">>],
                [form |-> "bad", ids |-> <<>>] }

\* Raw question objects, by the fields the schemas read.  They are the shapes
\* a response holds: choice questions with or without a type tag, options,
\* correctAnswer or answer; written-answer questions with or without a
\* sampleAnswer; and objects without a question text.
RawQuestions ==
  { q \in [ id : {Undef, "q1"}, type : {Undef, "mcq", "subjective"},
            question : {"Q", Undef}, options : RawOptions,
            correctAnswer : {Undef, "a", "z"}, answer : {Undef, "b"},
            sampleAnswer : {Undef, "S"} ] :
      LET bare == q.options = NoOptions /\ q.correctAnswer = Undef /\ q.answer = Undef IN
      /\ q.question = Undef => (bare /\ q.type = Undef /\ q.sampleAnswer = Undef)
      /\ q.sampleAnswer # Undef => (bare /\ q.type # "mcq")
      /\ q.type = "subjective" => bare
      /\ q.answer # Undef => (q.correctAnswer = Undef /\ q.options.form = "objects") }

GenIds == {"g1", "g2"}          \* values of `q${Math.random()...}`
DefaultOptions == <<"a", "b", "c", "d">>

\* mcqQuestionSchema 115-150: what the object schema accepts
mcqAccepts(q) ==
  /\ q.question # Undef
  /\ q.type \in {Undef, "mcq"}
  /\ q.options.form # "bad"

\* mcqQuestionSchema 151-182: the transform.  Keys the schema does not name are
\* stripped, sampleAnswer among them.
mcqQuestionSchema(q, gen) ==
  LET correct == IF q.correctAnswer = Undef THEN q.answer ELSE q.correctAnswer
      options == IF q.options.ids = <<>> THEN DefaultOptions ELSE q.options.ids IN
  [ type |-> "mcq",
    id |-> IF q.id = Undef THEN gen ELSE q.id,
    options |-> options,
    correctAnswer |-> IF correct = Undef THEN options[1] ELSE correct,
    sampleAnswer |-> Undef ]

\* subjectiveQuestionSchema 187-197
subjectiveAccepts(q) ==
  /\ q.question # Undef
  /\ q.type \in {Undef, "subjective"}

\* subjectiveQuestionSchema 198-220: options and correctAnswer are stripped.
subjectiveQuestionSchema(q, gen) ==
  [ type |-> "subjective",
    id |-> IF q.id = Undef THEN gen ELSE q.id,
    options |-> <<>>,
    correctAnswer |-> Undef,
    sampleAnswer |-> IF q.sampleAnswer = Undef THEN "No sample answer provided"
                     ELSE q.sampleAnswer ]

\* questionSchema 225-228: the union returns the first branch that accepts;
\* <<>> stands for a validation error.
questionSchema_subjectiveFirst(q, gen) ==
  IF subjectiveAccepts(q) THEN <<subjectiveQuestionSchema(q, gen)>>
  ELSE IF mcqAccepts(q) THEN <<mcqQuestionSchema(q, gen)>>
  ELSE <<>>
questionSchema(q, gen) ==
  IF mcqAccepts(q) THEN <<mcqQuestionSchema(q, gen)>>
  ELSE IF subjectiveAccepts(q) THEN <<subjectiveQuestionSchema(q, gen)>>
  ELSE <<>>

RECURSIVE Flatten(_)
Flatten(seqs) == IF seqs = <<>> THEN <<>> ELSE seqs[1] \o Flatten(Tail(seqs))

\* questionsArraySchema 233: z.array(questionSchema).parse throws when any
\* element fails, and returns the parsed elements otherwise.
questionsArraySchema_filter(items, gen) ==
  [ok |-> TRUE,
   value |-> Flatten([i \in 1..Len(items) |-> questionSchema(items[i], gen[i])])]
questionsArraySchema(items, gen) ==
  LET parsed == [i \in 1..Len(items) |-> questionSchema(items[i], gen[i])] IN
  IF \E i \in 1..Len(items) : parsed[i] = <<>>
  THEN [ok |-> FALSE, value |-> <<>>]
  ELSE [ok |-> TRUE, value |-> Flatten(parsed)]

\* Top-level shapes of parsed data: an array, {quiz: [...]}, {quizQuestions:
\* [...]}, or anything else.
Tops == {"array", "quiz", "quizQuestions", "other"}

\* parseQuizQuestions 602-622 on data that is not a string: the dispatch on the
\* shape, and the outer catch that turns a validation error into [].
parseQuizQuestions(top, items, gen) ==
  IF top = "other" THEN [threw |-> FALSE, value |-> <<>>]
  ELSE LET r == questionsArraySchema(items, gen) IN
       IF r.ok THEN [threw |-> FALSE, value |-> r.value]
       ELSE [threw |-> FALSE, value |-> <<>>]

RawArrays == UNION { [1..n -> RawQuestions] : n \in 0..MaxLen }

InitNorm ==
  /\ quizStore = <<>>
  /\ resultStore = <<>>
  /\ clock = 0
  /\ ops = [o \in OpIds |-> FreeOp]
  /\ img = FreeOp
  /\ HookIdle
  /\ rep = RepIdle
  /\ txt = TxtIdle
  /\ tree = TreeIdle
  /\ profile = ProfileIdle
  /\ PageIdle
  /\ \E top \in Tops, items \in RawArrays :
       /\ top = "other" => items = <<>>
       /\ norm = [phase |-> "input", top |-> top, items |-> items, out |-> <<>>,
                  threw |-> FALSE]

\* gen[i] is the id Math.random() yields for element i, if it needs one.
Normalize(gen) ==
  /\ norm.phase = "input"
  /\ \A i \in 1..MaxLen :
       (i > Len(norm.items) \/ norm.items[i].id # Undef) => gen[i] = "g1"
  /\ LET r == parseQuizQuestions(norm.top, norm.items, gen) IN
     norm' = [norm EXCEPT !.phase = "done", !.out = r.value, !.threw = r.threw]
  /\ UNCHANGED <<svcVars, hookVars, rep, txt, tree, profile, pageVars>>

NextNorm == \E gen \in [1..MaxLen -> GenIds] : Normalize(gen)

SpecNorm == InitNorm /\ [][NextNorm]_vars

----------------------------------------------------------------------------
(* Claims about the normalizer and about question ids *)

NormDone == norm.phase = "done"
\* The output lines up with the input, element by element.
NormKept == NormDone /\ norm.top # "other" /\ Len(norm.out) = Len(norm.items)

\* C6: every mcq question the normalizer returns has at least one option and
\* a correctAnswer that is the id of one of its own options.
C6_McqWellFormed ==
  NormDone =>
    \A i \in 1..Len(norm.out) :
      norm.out[i].type = "mcq" =>
        /\ Len(norm.out[i].options) >= 1
        /\ \E k \in 1..Len(norm.out[i].options) :
             norm.out[i].options[k] = norm.out[i].correctAnswer

\* C7: in the question list of every created quiz each question has an id and
\* the ids are pairwise distinct.
C7_QuestionIdsDistinct ==
  \A n \in 1..Len(quizStore) :
    LET qs == quizStore[n].quizQuestions IN
    \A j \in 1..Len(qs) :
      /\ qs[j].id # Undef
      /\ \A k \in 1..Len(qs) : j # k => qs[j].id # qs[k].id

\* An element is of a recognized shape when one of the two schemas accepts it.
Recognized(q) == mcqAccepts(q) \/ subjectiveAccepts(q)
RecognizedAt(items) == { i \in 1..Len(items) : Recognized(items[i]) }

\* C8 as stated: parseQuizQuestions never throws, drops the unrecognized
\* elements of an array and returns the others; an unrecognized top-level
\* shape yields the empty list.
C8_UnrecognizedDropped ==
  NormDone =>
    /\ ~norm.threw
    /\ norm.top = "other" => norm.out = <<>>
    /\ norm.top # "other" => Len(norm.out) = Cardinality(RecognizedAt(norm.items))

\* C8 as the code has it: parseQuizQuestions never throws; an array all of
\* whose elements are recognized is returned whole, element by element; an
\* array with any unrecognized element, like an unrecognized top-level shape,
\* yields the empty list.
C8_AllOrNothing ==
  NormDone =>
    /\ ~norm.threw
    /\ norm.top = "other" => norm.out = <<>>
    /\ norm.top # "other" =>
         IF RecognizedAt(norm.items) = 1..Len(norm.items)
         THEN /\ Len(norm.out) = Len(norm.items)
              /\ \A i \in 1..Len(norm.items) :
                   norm.items[i].id # Undef => norm.out[i].id = norm.items[i].id
         ELSE norm.out = <<>>

\* An array of a recognized and an unrecognized element came back empty.
C8_Witness ==
  /\ NormDone
  /\ norm.top = "array"
  /\ Len(norm.items) = 2
  /\ Recognized(norm.items[1])
  /\ ~Recognized(norm.items[2])
  /\ norm.out = <<>>

----------------------------------------------------------------------------
(* The repair step and the parsing entry points on a string.  A string is   *)
(* modelled by what the steps make of it; what the jsonrepair library and   *)
(* the engine's JSON.parse do with it are inputs of the steps.              *)

Returned(parses, array) == [status |-> "returned", parses |-> parses, array |-> array]
Threw == [status |-> "threw", parses |-> FALSE, array |-> FALSE]

\* parseQuizQuestions 553-571 on a string: aggressiveJSONRepair is called;
\* it returns "[]" at once for an empty string (line 251), else the regular
\* expression passes of steps 1-3 run (with or without a fenced block to
\* unwrap) and none of them throws.
CallParseQuizQuestions(empty, fenced) ==
  /\ rep.pc = "idle"
  /\ rep' = IF empty
            THEN [rep EXCEPT !.entry = "parseQuizQuestions", !.pc = "repaired",
                             !.repair = Returned(TRUE, TRUE)]
            ELSE [rep EXCEPT !.entry = "parseQuizQuestions", !.pc = "jsonrepair",
                             !.fenced = fenced]
  /\ UNCHANGED <<svcVars, hookVars, norm, txt, tree, profile, pageVars>>

\* Step 4, 435-441: jsonrepair(cleaned) either returns valid JSON, which
\* replaces cleaned, or throws, which is logged and cleaned stays as it was.
JsonRepair(ok) ==
  /\ rep.pc = "jsonrepair"
  /\ rep' = [rep EXCEPT !.pc = "validate", !.repaired = ok]
  /\ UNCHANGED <<svcVars, hookVars, norm, txt, tree, profile, pageVars>>

\* What the repaired text parses to
ParsedKinds == {"array", "quizObject", "object", "null", "scalar"}
\* What the SyntaxError of JSON.parse says of the place: "position" followed
\* by a number, the word "position" without a number after it (engines that
\* quote the offending text or name the offending identifier), or neither.
MessageKinds == {"numbered", "unnumbered", "silent"}

\* Step 5, 444-471, and the head of its catch, 472-480.
\* A parsed array is returned as it is, an object is wrapped or replaced by
\* its quiz array, a scalar gives "[]"; null makes parsed.quiz throw, which
\* the catch takes like a parse error without a position.  In the catch,
\* error.message.match(/position (\d+)/)[1] throws when the message holds
\* "position" without a number, and nothing catches that.
Validate(result) ==
  /\ rep.pc = "validate"
  /\ IF rep.repaired
     THEN /\ result \in ParsedKinds
          /\ rep' = IF result = "null"
                    THEN [rep EXCEPT !.pc = "extract", !.parsed = result]
                    ELSE [rep EXCEPT !.pc = "repaired", !.parsed = result,
                                     !.repair = Returned(TRUE, TRUE)]
     ELSE /\ result \in MessageKinds
          /\ rep' = CASE result = "numbered" ->
                           [rep EXCEPT !.pc = "positioned", !.message = result]
                      [] result = "unnumbered" ->
                           [rep EXCEPT !.pc = "repaired", !.message = result,
                                       !.repair = Threw]
                      [] OTHER ->
                           [rep EXCEPT !.pc = "extract", !.message = result]
  /\ UNCHANGED <<svcVars, hookVars, norm, txt, tree, profile, pageVars>>

\* 482-506: with a backslash at the reported position it is removed and the
\* text parsed again; an array is returned, anything else falls through.
AfterFixKinds == {"array", "other", "invalid"}
BackslashFix(backslash, afterFix) ==
  /\ rep.pc = "positioned"
  /\ rep' = IF backslash /\ afterFix = "array"
            THEN [rep EXCEPT !.pc = "repaired", !.repair = Returned(TRUE, TRUE)]
            ELSE [rep EXCEPT !.pc = "extract"]
  /\ UNCHANGED <<svcVars, hookVars, norm, txt, tree, profile, pageVars>>

\* Step 6, 509-545: the question blocks that parse are collected and
\* returned as JSON.stringify(questions), or "[]" when there is none.
Extract(blocks) ==
  /\ rep.pc = "extract"
  /\ rep' = [rep EXCEPT !.pc = "repaired", !.blocks = blocks,
                        !.repair = Returned(TRUE, TRUE)]
  /\ UNCHANGED <<svcVars, hookVars, norm, txt, tree, profile, pageVars>>

\* parseQuizQuestions 571-622 after the repair call: an exception of the
\* repair or of JSON.parse ends in the inner catch, whose own exception ends
\* in the outer one, and [] is returned; parsed data goes through the schema,
\* whose validation error is caught as well.
AfterRepair(valid) ==
  /\ rep.pc = "repaired"
  /\ rep' = [rep EXCEPT !.pc = "done",
               !.ret = IF rep.repair.status = "threw" \/ ~rep.repair.parses
                       THEN Returned(FALSE, TRUE)
                       ELSE Returned(valid, TRUE)]
  /\ UNCHANGED <<svcVars, hookVars, norm, txt, tree, profile, pageVars>>

\* questionParser.js parseQuestions 11-37: [] for an empty text, else the
\* fenced block or the whole text is taken and its backslashes rewritten.
CallParseQuestions(empty, fenced) ==
  /\ rep.pc = "idle"
  /\ rep' = IF empty
            THEN [rep EXCEPT !.entry = "parseQuestions", !.pc = "done",
                             !.ret = Returned(FALSE, TRUE)]
            ELSE [rep EXCEPT !.entry = "parseQuestions", !.pc = "parse",
                             !.fenced = fenced]
  /\ UNCHANGED <<svcVars, hookVars, norm, txt, tree, profile, pageVars>>

\* parseQuestions 40-84: JSON.parse, the map over the questions, the array
\* check; whatever throws (no JSON, no array, a null element) gives [].
TextKinds == {"array", "arrayWithNull", "object", "scalar", "invalid"}
ParseQuestionsParse(kind) ==
  /\ rep.pc = "parse"
  /\ rep' = [rep EXCEPT !.pc = "done", !.parsed = kind,
                        !.ret = Returned(kind = "array", TRUE)]
  /\ UNCHANGED <<svcVars, hookVars, norm, txt, tree, profile, pageVars>>

InitRepair ==
  /\ quizStore = <<>>
  /\ resultStore = <<>>
  /\ clock = 0
  /\ ops = [o \in OpIds |-> FreeOp]
  /\ img = FreeOp
  /\ HookIdle
  /\ norm = NormIdle
  /\ rep = RepIdle
  /\ txt = TxtIdle
  /\ tree = TreeIdle
  /\ profile = ProfileIdle
  /\ PageIdle

NextRepair ==
  \/ \E empty, fenced \in BOOLEAN : CallParseQuizQuestions(empty, fenced)
  \/ \E ok \in BOOLEAN : JsonRepair(ok)
  \/ \E result \in ParsedKinds \cup MessageKinds : Validate(result)
  \/ \E backslash \in BOOLEAN, afterFix \in AfterFixKinds : BackslashFix(backslash, afterFix)
  \/ \E blocks \in 0..MaxBlocks : Extract(blocks)
  \/ \E valid \in BOOLEAN : AfterRepair(valid)
  \/ \E empty, fenced \in BOOLEAN : CallParseQuestions(empty, fenced)
  \/ \E kind \in TextKinds : ParseQuestionsParse(kind)

SpecRepair == InitRepair /\ [][NextRepair]_vars

\* C10: the repair step returns a string that parses as JSON and the two
\* parsing entry points return an array; none of them throws.
C10_ParsingTotal ==
  /\ rep.repair.status # "threw"
  /\ rep.repair.status = "returned" => rep.repair.parses
  /\ rep.ret.status # "threw"
  /\ rep.ret.status = "returned" => rep.ret.array

----------------------------------------------------------------------------
(* aggressiveJSONRepair on texts, character by character.  The texts are    *)
(* over brackets, braces, comma, double quote and a letter; they hold no    *)
(* white space, colon, backslash, single quote, parenthesis or back-tick,   *)
(* so the passes that need one of these leave them as they are, and only    *)
(* the passes below can rewrite them.                                       *)

QT == "\""
BS == "\\"
Chars == {"[", "]", "{", "}", ",", QT, "x"}

RECURSIVE FirstOf(_, _, _)
\* The first index from i on whose character is in cs, 0 if there is none
FirstOf(s, i, cs) ==
  IF i > Len(s) THEN 0 ELSE IF s[i] \in cs THEN i ELSE FirstOf(s, i + 1, cs)

LastIndexOf(s, c) ==
  IF \E i \in 1..Len(s) : s[i] = c
  THEN CHOOSE i \in 1..Len(s) : s[i] = c /\ \A j \in (i + 1)..Len(s) : s[j] # c
  ELSE 0

From(s, i) == SubSeq(s, i, Len(s))

RECURSIVE UnescapeKeyQuote(_)
\* 259 and 354: .replace(/"([a-zA-Z0-9_]+)\\"/g, '"$1"')
UnescapeKeyQuote(s) ==
  IF s = <<>> THEN s
  ELSE LET m == FirstOf(s, 2, (Chars \cup {BS}) \ {"x"}) IN
       IF /\ s[1] = QT
          /\ m > 2
          /\ s[m] = BS
          /\ m + 1 <= Len(s)
          /\ s[m + 1] = QT
       THEN SubSeq(s, 1, m - 1) \o <<QT>> \o UnescapeKeyQuote(From(s, m + 2))
       ELSE <<s[1]>> \o UnescapeKeyQuote(Tail(s))

\* Step 2, 310-318: the text from the first "[" to the last "]"
ArrayPortion(s) ==
  LET startIdx == FirstOf(s, 1, {"["})
      endIdx   == LastIndexOf(s, "]") IN
  IF startIdx > 0 /\ endIdx >= startIdx THEN SubSeq(s, startIdx, endIdx) ELSE s

\* 324-347: a text that does not start with "[" is wrapped when it starts
\* with "{", else cut to start at its first "[", else replaced by "[]".
ArrayStart(s) ==
  IF s = <<>> \/ s[1] = "[" THEN s
  ELSE IF s[1] = "{" THEN <<"[">> \o s \o <<"]">>
  ELSE IF FirstOf(s, 1, {"["}) > 0 THEN From(s, FirstOf(s, 1, {"["}))
  ELSE <<"[", "]">>

RECURSIVE ReplacePair(_, _, _, _)
\* .replace(/ab/g, r) for two characters a and b
ReplacePair(s, a, b, r) ==
  IF Len(s) < 2 THEN s
  ELSE IF s[1] = a /\ s[2] = b THEN r \o ReplacePair(From(s, 3), a, b, r)
  ELSE <<s[1]>> \o ReplacePair(Tail(s), a, b, r)

\* Step 3, 399-412: trailing commas, a quote before "{", duplicate commas
FixCommas(s) ==
  LET a == ReplacePair(s, ",", "}", <<"}">>)
      b == ReplacePair(a, ",", "]", <<"]">>)
      c == ReplacePair(b, QT, "{", <<QT, ",", "{">>) IN
  ReplacePair(c, ",", ",", <<",">>)

RECURSIVE EscapeInnerQuotes(_)
\* 425: .replace(/"([^"\\]*)"([^"]*")/g, '"$1\\"$2')
EscapeInnerQuotes(s) ==
  IF s = <<>> THEN s
  ELSE LET j == FirstOf(s, 2, {QT, BS})
           k == IF j > 0 /\ s[j] = QT THEN FirstOf(s, j + 1, {QT}) ELSE 0 IN
       IF s[1] = QT /\ k > 0
       THEN SubSeq(s, 1, j - 1) \o <<BS>> \o SubSeq(s, j, k)
              \o EscapeInnerQuotes(From(s, k + 1))
       ELSE <<s[1]>> \o EscapeInnerQuotes(Tail(s))

\* 428-431: commas between adjacent closing and opening brackets
FixBrackets(s) ==
  LET a == ReplacePair(s, "}", "{", <<"}", ",", "{">>)
      b == ReplacePair(a, "]", "[", <<"]", ",", "[">>)
      c == ReplacePair(b, "}", "[", <<"}", ",", "[">>) IN
  ReplacePair(c, "]", "{", <<"]", ",", "{">>)

\* 257-431: the passes in their order; every one is applied, whatever the text
RewritingPasses(s) ==
  FixBrackets(EscapeInnerQuotes(FixCommas(UnescapeKeyQuote(
    ArrayStart(ArrayPortion(UnescapeKeyQuote(s)))))))

RECURSIVE ParseString(_, _)
RECURSIVE ParseValue(_, _)
RECURSIVE ParseElements(_, _)
\* JSON.parse on these texts: the index after the value that starts at i, or 0
ParseString(s, i) ==
  IF i > Len(s) THEN 0
  ELSE IF s[i] = QT THEN i + 1
  ELSE IF s[i] = BS
    THEN IF i + 1 <= Len(s) /\ s[i + 1] \in {QT, BS} THEN ParseString(s, i + 2) ELSE 0
  ELSE ParseString(s, i + 1)
ParseElements(s, i) ==
  LET k == ParseValue(s, i) IN
  IF k = 0 \/ k > Len(s) THEN 0
  ELSE IF s[k] = "]" THEN k + 1
  ELSE IF s[k] = "," THEN ParseElements(s, k + 1)
  ELSE 0
ParseValue(s, i) ==
  IF i > Len(s) THEN 0
  ELSE IF s[i] = QT THEN ParseString(s, i + 1)
  ELSE IF s[i] = "[" THEN IF i < Len(s) /\ s[i + 1] = "]" THEN i + 2
                          ELSE ParseElements(s, i + 1)
  ELSE IF s[i] = "{" THEN IF i < Len(s) /\ s[i + 1] = "}" THEN i + 2 ELSE 0
  ELSE 0

ParsesAsJSON(s) == ParseValue(s, 1) = Len(s) + 1
ParsesAsArray(s) == ParsesAsJSON(s) /\ s[1] = "["

ReturnedText(s) == [status |-> "returned", text |-> s]
ThrewText == [status |-> "threw", text |-> <<>>]

\* What jsonrepair may do with a text that is not JSON: throw, or return some
\* JSON text.  A JSON text it returns as it is.
LibraryOutcomes == {<<"throws">>, <<"[", "]">>, <<"{", "}">>, <<QT, QT>>}
\* What the SyntaxError of JSON.parse says: no position, the word without a
\* number, or a position in the text (counted from 0).
ErrorOutcomes ==
  {[kind |-> k, position |-> 0] : k \in {"silent", "unnumbered"}}
    \cup {[kind |-> "numbered", position |-> p] : p \in 0..(MaxBody + 6)}
Silent == [kind |-> "silent", position |-> 0]

\* Step 5, 444-471: an array is returned, an object wrapped, a scalar
\* replaced by "[]".
ValidateParsed(cleaned) ==
  IF cleaned[1] = "[" THEN ReturnedText(cleaned)
  ELSE IF cleaned[1] = "{" THEN ReturnedText(<<"[">> \o cleaned \o <<"]">>)
  ELSE ReturnedText(<<"[", "]">>)

\* The catch of step 5, 472-545: the position is read from the message, a
\* backslash at it is removed and the text parsed again; no question block
\* is found in these texts, so what is left is "[]".
EmergencyRepair(cleaned, err) ==
  IF err.kind = "unnumbered" THEN ThrewText
  ELSE IF err.kind = "silent" THEN ReturnedText(<<"[", "]">>)
  ELSE LET p     == err.position
           at(i) == IF i >= 0 /\ i < Len(cleaned) THEN cleaned[i + 1] ELSE "none"
           fixed == SubSeq(cleaned, 1, p) \o From(cleaned, p + 2) IN
       IF (at(p) = BS \/ at(p - 1) = BS) /\ ParsesAsArray(fixed)
       THEN ReturnedText(fixed)
       ELSE ReturnedText(<<"[", "]">>)

\* aggressiveJSONRepair 250-546
aggressiveJSONRepair(jsonString, lib, err) ==
  IF jsonString = <<>> THEN ReturnedText(<<"[", "]">>)
  ELSE LET passed  == RewritingPasses(jsonString)
           cleaned == IF ParsesAsJSON(passed) \/ lib = <<"throws">> THEN passed ELSE lib IN
       IF ParsesAsJSON(cleaned) THEN ValidateParsed(cleaned)
       ELSE EmergencyRepair(cleaned, err)

\* Whether the library or the engine had a say in the result
Guessed(jsonString) ==
  jsonString # <<>> /\ ~ParsesAsJSON(RewritingPasses(jsonString))

Bodies == UNION { [1..n -> Chars] : n \in 0..MaxBody }
\* A text, bare or as the one string of a JSON array
Texts == Bodies \cup { <<"[", QT>> \o b \o <<QT, "]">> : b \in Bodies }

InitText ==
  /\ quizStore = <<>>
  /\ resultStore = <<>>
  /\ clock = 0
  /\ ops = [o \in OpIds |-> FreeOp]
  /\ img = FreeOp
  /\ HookIdle
  /\ norm = NormIdle
  /\ rep = RepIdle
  /\ tree = TreeIdle
  /\ profile = ProfileIdle
  /\ PageIdle
  /\ \E t \in Texts : txt = [TxtIdle EXCEPT !.pc = "input", !.input = t]

\* repair(x).  Where neither the library nor the engine is asked, one choice
\* of their outcomes stands for all.
RepairOnce(lib, err) ==
  /\ txt.pc = "input"
  /\ Guessed(txt.input) \/ (lib = <<"throws">> /\ err = Silent)
  /\ txt' = [txt EXCEPT !.pc = "once",
                        !.guessed = Guessed(txt.input),
                        !.once = aggressiveJSONRepair(txt.input, lib, err)]
  /\ UNCHANGED <<svcVars, hookVars, norm, rep, tree, profile, pageVars>>

\* repair(repair(x))
RepairTwice(lib, err) ==
  /\ txt.pc = "once"
  /\ txt.once.status = "returned"
  /\ Guessed(txt.once.text) \/ (lib = <<"throws">> /\ err = Silent)
  /\ txt' = [txt EXCEPT !.pc = "twice",
                        !.guessed = @ \/ Guessed(txt.once.text),
                        !.twice = aggressiveJSONRepair(txt.once.text, lib, err)]
  /\ UNCHANGED <<svcVars, hookVars, norm, rep, tree, profile, pageVars>>

NextText ==
  \/ \E lib \in LibraryOutcomes, err \in ErrorOutcomes : RepairOnce(lib, err)
  \/ \E lib \in LibraryOutcomes, err \in ErrorOutcomes : RepairTwice(lib, err)

SpecText == InitText /\ [][NextText]_vars

\* C11: a text that already parses as JSON is returned unchanged by the repair
\* step.  Stated for the texts that parse as a JSON array, which the step has
\* no reason to wrap or replace.
C11_ValidJsonUnchanged ==
  (txt.pc = "once" /\ ParsesAsArray(txt.input)) => txt.once = ReturnedText(txt.input)

\* C12: repair is idempotent, repair(repair(x)) = repair(x).  Stated for the
\* runs in which every pass left a JSON text, so that neither the library nor
\* the engine had a say.
C12_RepairIdempotent ==
  (txt.pc = "twice" /\ ~txt.guessed /\ txt.twice.status = "returned")
     => txt.twice = txt.once

----------------------------------------------------------------------------
(* A question array written as JSON in the format of the prompt example and *)
(* read back by parseQuestions, string field by string field.  The rewrite  *)
(* of parseQuestions touches backslashes only, and all backslashes of a     *)
(* written array are inside its string literals.                            *)

NL == "\n"
ValueChars == {"x", BS, QT, NL}

RECURSIVE stringify(_)
\* JSON.stringify of a string, without the enclosing quotes
stringify(v) ==
  IF v = <<>> THEN <<>>
  ELSE (CASE v[1] = BS -> <<BS, BS>>
          [] v[1] = QT -> <<BS, QT>>
          [] v[1] = NL -> <<BS, "n">>
          [] OTHER     -> <<v[1]>>) \o stringify(Tail(v))

RECURSIVE CollapseBackslashes(_)
\* questionParser.js 31: jsonString.replace(/\\+/g, "\\")
CollapseBackslashes(s) ==
  IF s = <<>> THEN s
  ELSE IF s[1] = BS /\ Len(s) > 1 /\ s[2] = BS THEN CollapseBackslashes(Tail(s))
  ELSE <<s[1]>> \o CollapseBackslashes(Tail(s))

RECURSIVE QuadrupleBackslashes(_)
\* questionParser.js 34: jsonString.replace(/\\/g, "\\\\\\\\")
QuadrupleBackslashes(s) ==
  IF s = <<>> THEN s
  ELSE (IF s[1] = BS THEN <<BS, BS, BS, BS>> ELSE <<s[1]>>)
         \o QuadrupleBackslashes(Tail(s))

RECURSIVE ParseLiteral(_)
\* questionParser.js 39: JSON.parse on the inside of a string literal.  A bare
\* quote ends the literal before its end and what follows is no JSON.
ParseLiteral(s) ==
  LET failed == [ok |-> FALSE, value |-> <<>>] IN
  IF s = <<>> THEN [ok |-> TRUE, value |-> <<>>]
  ELSE IF s[1] \in {QT, NL} THEN failed
  ELSE IF s[1] = BS
    THEN IF Len(s) < 2 \/ s[2] \notin {BS, QT, "n"} THEN failed
         ELSE LET rest == ParseLiteral(From(s, 3))
                  c    == IF s[2] = "n" THEN NL ELSE s[2] IN
              [ok |-> rest.ok, value |-> <<c>> \o rest.value]
  ELSE LET rest == ParseLiteral(Tail(s)) IN
       [ok |-> rest.ok, value |-> <<s[1]>> \o rest.value]

\* questionParser.js 43-67: question.question.replace(/\\\\/g, "\\")
HalveBackslashes(v) == ReplacePair(v, BS, BS, <<BS>>)

QuestionFields == {"id", "type", "question", "sampleAnswer", "topic"}
\* The fields the map of 43-67 rewrites (explanation and options[].text too,
\* which a subjective question has not)
ProcessedFields == {"question", "sampleAnswer"}

\* parseQuestions 11-85 on a written array of one question
parseQuestionsText(written) ==
  LET lit == [f \in QuestionFields |->
                ParseLiteral(QuadrupleBackslashes(CollapseBackslashes(written[1][f])))] IN
  IF \E f \in QuestionFields : ~lit[f].ok THEN <<>>
  ELSE << [f \in QuestionFields |->
             IF f \in ProcessedFields THEN HalveBackslashes(lit[f].value)
             ELSE lit[f].value] >>

Values == UNION { [1..n -> ValueChars] : n \in 0..MaxValue }
\* Arrays of one well-formed subjective question
WellFormedArrays ==
  { << [f \in QuestionFields |->
          CASE f = "id" -> <<"q", "1">>
            [] f = "type" -> <<"s">>
            [] f = "question" -> q
            [] f = "sampleAnswer" -> <<"x">>
            [] f = "topic" -> t] >> : q \in Values \ {<<>>}, t \in Values }

InitTrip ==
  /\ quizStore = <<>>
  /\ resultStore = <<>>
  /\ clock = 0
  /\ ops = [o \in OpIds |-> FreeOp]
  /\ img = FreeOp
  /\ HookIdle
  /\ norm = NormIdle
  /\ rep = RepIdle
  /\ tree = TreeIdle
  /\ profile = ProfileIdle
  /\ PageIdle
  /\ \E a \in WellFormedArrays : txt = [TxtIdle EXCEPT !.pc = "array", !.input = a]

\* The array written as JSON in the format of the prompt example
WriteQuestions ==
  /\ txt.pc = "array"
  /\ txt' = [txt EXCEPT !.pc = "written",
               !.once = [status |-> "written",
                         text |-> << [f \in QuestionFields |-> stringify(txt.input[1][f])] >>]]
  /\ UNCHANGED <<svcVars, hookVars, norm, rep, tree, profile, pageVars>>

\* The written text read back by parseQuestions
ReadQuestions ==
  /\ txt.pc = "written"
  /\ txt' = [txt EXCEPT !.pc = "read",
               !.twice = [status |-> "read", text |-> parseQuestionsText(txt.once.text)]]
  /\ UNCHANGED <<svcVars, hookVars, norm, rep, tree, profile, pageVars>>

NextTrip == WriteQuestions \/ ReadQuestions

SpecTrip == InitTrip /\ [][NextTrip]_vars

\* C13: a well-formed question array written in the format of the prompt
\* example and read back is equal to the original, field for field.
C13_RoundTrip ==
  txt.pc = "read" => txt.twice.text = txt.input

----------------------------------------------------------------------------
(* Claims about the image pipeline and the stores *)

Last(list) == list[Len(list)]

----------------------------------------------------------------------------
(* The notes_structure of a structuring response transformed into the topic *)
(* tree that is stored as structuredData (part_015 250-312 and 886-941).    *)

UnnamedTopic    == <<"U", "n", "n", "a", "m", "e", "d", " ", "T", "o", "p", "i", "c">>
UnnamedSubtopic == <<"U", "n", "n", "a", "m", "e", "d", " ", "S", "u", "b", "t", "o", "p", "i", "c">>
UnnamedConcept  == <<"U", "n", "n", "a", "m", "e", "d", " ", "C", "o", "n", "c", "e", "p", "t">>

\* Names a node of the response may carry: none, the empty string, and
\* strings with capitals, white space and punctuation
NoName    == <<Undef>>
NodeNames == {NoName, <<>>, <<"A">>, <<"a">>, <<"a", " ", " ", "!">>}
\* sub_items that is no array, and one that is
NoItems      == [isArray |-> FALSE, items |-> <<>>]
Items(items) == [isArray |-> TRUE, items |-> items]

toLowerCase(c) ==
  CASE c = "A" -> "a" [] c = "U" -> "u" [] c = "T" -> "t"
    [] c = "S" -> "s" [] c = "C" -> "c" [] OTHER -> c

RECURSIVE UnderscoreSpaces(_)
\* .replace(/\s+/g, "_")
UnderscoreSpaces(s) ==
  IF s = <<>> THEN s
  ELSE IF s[1] = " "
    THEN IF Len(s) > 1 /\ s[2] = " " THEN UnderscoreSpaces(Tail(s))
         ELSE <<"_">> \o UnderscoreSpaces(Tail(s))
  ELSE <<s[1]>> \o UnderscoreSpaces(Tail(s))

\* name.toLowerCase().replace(/\s+/g, "_").replace(/[^\w-]+/g, "")
Slug(name) ==
  LET IsWord(c) == c \notin {"!", " "} IN
  SelectSeq(UnderscoreSpaces([i \in 1..Len(name) |-> toLowerCase(name[i])]), IsWord)

\* item.name || "Unnamed ..."
NameOr(item, default) ==
  IF item.name = NoName \/ item.name = <<>> THEN default ELSE item.name

transformConcept(concept) ==
  LET conceptName == NameOr(concept, UnnamedConcept) IN
  [id |-> Slug(conceptName), name |-> conceptName]

transformSubtopic(subtopic) ==
  LET subtopicName == NameOr(subtopic, UnnamedSubtopic) IN
  [id |-> Slug(subtopicName), title |-> subtopicName,
   concepts |-> IF ~subtopic.sub_items.isArray THEN <<>>
                ELSE [i \in 1..Len(subtopic.sub_items.items) |->
                        transformConcept(subtopic.sub_items.items[i])]]

transformTopic(topic) ==
  LET topicName == NameOr(topic, UnnamedTopic) IN
  [id |-> Slug(topicName), title |-> topicName,
   subtopics |-> IF ~topic.sub_items.isArray THEN <<>>
                 ELSE [i \in 1..Len(topic.sub_items.items) |->
                         transformSubtopic(topic.sub_items.items[i])]]

transformedTopics(notes_structure) ==
  [i \in 1..Len(notes_structure) |-> transformTopic(notes_structure[i])]

\* The notes structures of a response: sub_items may be missing at each level
RawConcepts  == { [name |-> n] : n \in NodeNames }
RawSubtopics == { [name |-> n, sub_items |-> c] :
                    n \in NodeNames,
                    c \in {NoItems} \cup { Items(<<x>>) : x \in RawConcepts } }
RawTopics    == { [name |-> n, sub_items |-> s] :
                    n \in NodeNames,
                    s \in {NoItems, Items(<<>>)} \cup { Items(<<x>>) : x \in RawSubtopics } }
NotesStructures == UNION { [1..n -> RawTopics] : n \in 1..MaxTopics }

InitTree ==
  /\ quizStore = <<>>
  /\ resultStore = <<>>
  /\ clock = 0
  /\ ops = [o \in OpIds |-> FreeOp]
  /\ img = FreeOp
  /\ HookIdle
  /\ norm = NormIdle
  /\ rep = RepIdle
  /\ txt = TxtIdle
  /\ profile = ProfileIdle
  /\ PageIdle
  /\ \E ns \in NotesStructures : tree = [TreeIdle EXCEPT !.pc = "parsed", !.input = ns]

TransformNotes ==
  /\ tree.pc = "parsed"
  /\ tree' = [tree EXCEPT !.pc = "stored", !.out = transformedTopics(tree.input)]
  /\ UNCHANGED <<svcVars, hookVars, norm, rep, txt, profile, pageVars>>

NextTree == TransformNotes

SpecTree == InitTree /\ [][NextTree]_vars

\* Every node of a children list has a non-empty display name and the slug of
\* it as id, and no two nodes of the list have the same id
NodesWellFormed(nodes, field) ==
  /\ \A i \in 1..Len(nodes) :
       nodes[i][field] # <<>> /\ nodes[i].id = Slug(nodes[i][field])
  /\ \A i, j \in 1..Len(nodes) : i # j => nodes[i].id # nodes[j].id

\* C15: in every stored topic tree each topic, subtopic and concept has a
\* non-empty display name ("Unnamed ..." when the response has none) and an
\* id that is the slug of the name and differs from the id of every sibling.
C15_TreeNodesWellFormed ==
  tree.pc = "stored" =>
    /\ NodesWellFormed(tree.out, "title")
    /\ \A t \in 1..Len(tree.out) :
         /\ NodesWellFormed(tree.out[t].subtopics, "title")
         /\ \A u \in 1..Len(tree.out[t].subtopics) :
              NodesWellFormed(tree.out[t].subtopics[u].concepts, "name")

\* Two topics with different names and one id
C15_Witness ==
  /\ tree.pc = "stored"
  /\ Len(tree.out) = 2
  /\ tree.out[1].title # tree.out[2].title
  /\ tree.out[1].id = tree.out[2].id

----------------------------------------------------------------------------
(* The adaptive quiz request: analyzePerformance over the stored quizzes,   *)
(* generateAdaptivePrompt, and the choice of service in useQuiz.            *)

ProfileSources == {"r1", "r2"}

\* Question texts, as the words /\W+/ splits them into
WhatIsAverageRate == <<"What", "is", "the", "average", "rate", "of", "change">>
WhatIsIt          == <<"What", "is", "it">>

\* Every third question of every second quiz asks what "it" is
QuestionOf(id, k) ==
  [id |-> k,
   question |-> IF id % 2 = 0 /\ k % 3 = 0 THEN WhatIsIt ELSE WhatIsAverageRate]

stopWords == {"what", "which", "how", "when", "where", "is", "are", "the", "a",
              "an", "in", "on", "at", "to", "for"}
\* The words of the texts with word.length <= 2
ShortWords == {"is", "of", "it"}

\* extractTopicFromQuestion 94-120: the first three words that are longer than
\* two letters and no stop words, joined by "_", or "general"
extractTopicFromQuestion(question) ==
  LET lower(w) == IF w = "What" THEN "what" ELSE w
      text     == [i \in 1..Len(question.question) |-> lower(question.question[i])]
      keep(w)  == w \notin ShortWords /\ w \notin stopWords
      words    == SelectSeq(text, keep) IN
  IF words = <<>> THEN <<"general">>
  ELSE SubSeq(words, 1, IF Len(words) < 3 THEN Len(words) ELSE 3)

\* A quiz as the services store it (quizGenerationService.js 121-128,
\* adaptiveQuizService.js 317-339): not attempted; the adaptive one with a
\* score entry per question already.
StoredQuiz(id, sourceId, adaptive, n) ==
  [id |-> id, sourceId |-> sourceId, attempted |-> FALSE,
   quizQuestions |-> [k \in 1..n |-> QuestionOf(id, k)],
   questionScores |-> IF adaptive
                      THEN [k \in 1..n |-> [questionNumber |-> k, correct |-> FALSE]]
                      ELSE <<>>]

relevantQuizzes_anyStatus(list, sourceId) ==
  LET test(quiz) == quiz.sourceId = sourceId IN SelectSeq(list, test)

\* analyzePerformance 17-20
relevantQuizzes(list, sourceId) ==
  LET test(quiz) == quiz.sourceId = sourceId /\ quiz.attempted IN
  SelectSeq(list, test)

RECURSIVE CountScores(_, _, _)
\* analyzePerformance 32-63: quiz.questionScores.forEach from entry k on
CountScores(perf, quiz, k) ==
  IF k > Len(quiz.questionScores) THEN perf
  ELSE LET score == quiz.questionScores[k] IN
       IF score.questionNumber > Len(quiz.quizQuestions)
       THEN CountScores(perf, quiz, k + 1)
       ELSE LET question == quiz.quizQuestions[score.questionNumber]
                topic    == extractTopicFromQuestion(question)
                old      == IF topic \in DOMAIN perf THEN perf[topic]
                            ELSE [attempts |-> 0, correct |-> 0, difficulty |-> 1,
                                  questionIds |-> {}]
                new      == [old EXCEPT !.attempts = @ + 1,
                                        !.correct = IF score.correct THEN @ + 1 ELSE @,
                                        !.questionIds = @ \cup {question.id}] IN
            CountScores([t \in DOMAIN perf \cup {topic} |->
                           IF t = topic THEN new ELSE perf[t]], quiz, k + 1)

RECURSIVE CountQuizzes(_, _)
\* analyzePerformance 31-64: relevantQuizzes.forEach
CountQuizzes(perf, quizzes) ==
  IF quizzes = <<>> THEN perf
  ELSE CountQuizzes(CountScores(perf, quizzes[1], 1), Tail(quizzes))

\* correct / attempts > num / den and < num / den, for 0.8, 0.6 and 0.4
RateAbove(p, num, den) == p.correct * den > num * p.attempts
RateBelow(p, num, den) == p.correct * den < num * p.attempts

UpdatedDifficulty_anyAttempts(p) ==
  IF RateAbove(p, 4, 5)
  THEN (IF p.difficulty + 1 > 3 THEN 3 ELSE p.difficulty + 1)
  ELSE p.difficulty

\* analyzePerformance 67-80
UpdatedDifficulty(p) ==
  IF RateAbove(p, 4, 5) /\ p.attempts >= 3
  THEN (IF p.difficulty + 1 > 3 THEN 3 ELSE p.difficulty + 1)
  ELSE IF RateBelow(p, 2, 5)
  THEN (IF p.difficulty - 1 < 1 THEN 1 ELSE p.difficulty - 1)
  ELSE p.difficulty

analyzePerformance_neverNull(list, sourceId) ==
  [isNull |-> FALSE, questionPerformance |-> <<>>]

\* analyzePerformance 15-87
analyzePerformance(list, sourceId) ==
  LET relevant == relevantQuizzes(list, sourceId)
      counted  == CountQuizzes(<<>>, relevant) IN
  IF relevant = <<>> THEN NoProfile
  ELSE [isNull |-> FALSE,
        questionPerformance |->
          [t \in DOMAIN counted |->
             [counted[t] EXCEPT !.difficulty = UpdatedDifficulty(counted[t])]]]

\* The standard prompt, which names no topic
QUIZ_GENERATION_PROMPT ==
  [kind |-> "standard", weakTopics |-> {}, masteredTopics |-> {}]

generateAdaptivePrompt_weakBelowFloor(performanceProfile) ==
  LET qp == performanceProfile.questionPerformance IN
  IF performanceProfile.isNull THEN QUIZ_GENERATION_PROMPT
  ELSE [kind |-> "adaptive",
        weakTopics |-> {t \in DOMAIN qp : RateBelow(qp[t], 2, 5)},
        masteredTopics |-> {t \in DOMAIN qp : RateAbove(qp[t], 4, 5) /\ qp[t].attempts >= 3}]

\* generateAdaptivePrompt 128-186: the topics listed under 1 and under 2
generateAdaptivePrompt(performanceProfile) ==
  LET qp == performanceProfile.questionPerformance IN
  IF performanceProfile.isNull THEN QUIZ_GENERATION_PROMPT
  ELSE [kind |-> "adaptive",
        weakTopics |-> {t \in DOMAIN qp : RateBelow(qp[t], 3, 5)},
        masteredTopics |-> {t \in DOMAIN qp : RateAbove(qp[t], 4, 5) /\ qp[t].attempts >= 3}]

\* generateAdaptiveQuiz 194-262 up to its fetch
AdaptiveRequest(list, sourceId) ==
  LET performanceProfile == analyzePerformance(list, sourceId) IN
  [pc |-> "requested", sourceId |-> sourceId, service |-> "adaptive",
   performanceProfile |-> performanceProfile,
   prompt |-> generateAdaptivePrompt(performanceProfile)]

\* generateQuizFromNotes up to its fetch (quizGenerationService.js 56)
StandardRequest(sourceId) ==
  [pc |-> "requested", sourceId |-> sourceId, service |-> "standard",
   performanceProfile |-> NoProfile, prompt |-> QUIZ_GENERATION_PROMPT]

\* useQuiz.js 90-93
hasAttemptedQuizzes(list, sourceId) ==
  \E i \in 1..Len(list) : list[i].sourceId = sourceId /\ list[i].attempted

\* useQuiz.js 90-106: the adaptive service is called when it is asked for and
\* the source has an attempted quiz, the standard one otherwise
handleGenerateQuiz(sourceId, useAdaptive) ==
  /\ profile.pc = "idle"
  /\ profile' = IF useAdaptive /\ hasAttemptedQuizzes(quizStore, sourceId)
                THEN AdaptiveRequest(quizStore, sourceId)
                ELSE StandardRequest(sourceId)
  /\ UNCHANGED <<svcVars, hookVars, norm, rep, txt, tree, pageVars>>

\* generateAdaptiveQuiz called for a source, whatever is stored
generateAdaptiveQuiz(sourceId) ==
  /\ profile.pc = "idle"
  /\ profile' = AdaptiveRequest(quizStore, sourceId)
  /\ UNCHANGED <<svcVars, hookVars, norm, rep, txt, tree, pageVars>>

\* useQuiz.js 176-222: a stored quiz is finished; it is marked attempted and
\* gets one score entry per question.  One request is followed: the quizzes
\* are attempted before it.
AttemptQuiz(i, correct) ==
  /\ profile.pc = "idle"
  /\ i \in 1..Len(quizStore)
  /\ ~quizStore[i].attempted
  /\ quizStore' = [quizStore EXCEPT ![i] =
       [@ EXCEPT !.attempted = TRUE,
                 !.questionScores =
                    [k \in 1..Len(quizStore[i].quizQuestions) |->
                       [questionNumber |-> k, correct |-> correct[k]]]]]
  /\ UNCHANGED <<resultStore, clock, ops, img, hookVars, norm, rep, txt, tree, profile, pageVars>>

StoredQuizzes ==
  UNION { { [i \in 1..len |-> StoredQuiz(i, f[i].sourceId, f[i].adaptive, f[i].n)] :
              f \in [1..len -> [sourceId : ProfileSources, adaptive : BOOLEAN,
                                n : (MaxQuestions - 1)..MaxQuestions]] } :
          len \in 0..MaxQuizzes }

InitProfile ==
  /\ quizStore \in StoredQuizzes
  /\ resultStore = <<>>
  /\ clock = 0
  /\ ops = [o \in OpIds |-> FreeOp]
  /\ img = FreeOp
  /\ HookIdle
  /\ norm = NormIdle
  /\ rep = RepIdle
  /\ txt = TxtIdle
  /\ tree = TreeIdle
  /\ profile = ProfileIdle
  /\ PageIdle

NextProfile ==
  \/ \E i \in 1..MaxQuizzes, correct \in [1..MaxQuestions -> BOOLEAN] :
       AttemptQuiz(i, correct)
  \/ \E s \in ProfileSources, useAdaptive \in BOOLEAN : handleGenerateQuiz(s, useAdaptive)
  \/ \E s \in ProfileSources : generateAdaptiveQuiz(s)

SpecProfile == InitProfile /\ [][NextProfile]_vars

\* The score entries of the attempted quizzes of a source that belong to a
\* question of the topic, each named by its quiz and its place
ScoresOf(list, sourceId, topic) ==
  { e \in (1..Len(list)) \X (1..MaxQuestions) :
      LET quiz == list[e[1]] IN
      /\ quiz.sourceId = sourceId
      /\ quiz.attempted
      /\ e[2] <= Len(quiz.questionScores)
      /\ extractTopicFromQuestion(quiz.quizQuestions[e[2]]) = topic }
CorrectOf(list, sourceId, topic) ==
  { e \in ScoresOf(list, sourceId, topic) : list[e[1]].questionScores[e[2]].correct }
Topics == { extractTopicFromQuestion(QuestionOf(id, k)) :
              id \in 1..MaxQuizzes, k \in 1..MaxQuestions }
Counted(qp, topic, field) == IF topic \in DOMAIN qp THEN qp[topic][field] ELSE 0

\* C16: analyzePerformance(sourceId) counts a score only when it belongs to a
\* stored quiz of that source with attempted = true: for every topic, attempts
\* and correct are the numbers of such scores; quizzes of other sources and
\* quizzes not attempted, the adaptive ones with their pre-filled scores
\* included, add nothing.  (The store is as the request found it.)
C16_CountsAttemptedOfSource ==
  LET qp == profile.performanceProfile.questionPerformance IN
  (profile.pc = "requested" /\ profile.service = "adaptive") =>
    /\ DOMAIN qp \subseteq Topics
    /\ \A t \in Topics :
         /\ Counted(qp, t, "attempts")
              = Cardinality(ScoresOf(quizStore, profile.sourceId, t))
         /\ Counted(qp, t, "correct")
              = Cardinality(CorrectOf(quizStore, profile.sourceId, t))

\* A profile of r1 counting two scores, next to an adaptive quiz of r1 not
\* yet attempted and holding its pre-filled scores
C16_Witness ==
  /\ profile.pc = "requested"
  /\ profile.sourceId = "r1"
  /\ ~profile.performanceProfile.isNull
  /\ Len(quizStore) = 2
  /\ quizStore[1].sourceId = "r1" /\ quizStore[1].attempted
  /\ Len(quizStore[1].questionScores) = 2
  /\ quizStore[2].sourceId = "r1" /\ ~quizStore[2].attempted
  /\ Len(quizStore[2].questionScores) = 3
  /\ profile.performanceProfile.questionPerformance[<<"average", "rate", "change">>].attempts = 2

\* C17: in a profile every topic's difficulty is the default 1 raised by one
\* exactly when correct/attempts > 0.8 with at least 3 attempts, lowered but
\* not below 1 when correct/attempts < 0.4, and the default otherwise; it is
\* an integer in 1..3.
C17_DifficultyRule ==
  LET qp == profile.performanceProfile.questionPerformance IN
  profile.pc = "requested" =>
    \A t \in DOMAIN qp :
      /\ qp[t].difficulty \in 1..3
      /\ qp[t].difficulty =
           IF RateAbove(qp[t], 4, 5) /\ qp[t].attempts >= 3 THEN 2 ELSE 1

\* A topic raised to 2 and a topic with a high rate on too few attempts
C17_Witness ==
  LET qp == profile.performanceProfile.questionPerformance IN
  /\ profile.pc = "requested"
  /\ DOMAIN qp = {<<"average", "rate", "change">>, <<"general">>}
  /\ qp[<<"average", "rate", "change">>].difficulty = 2
  /\ qp[<<"general">>].attempts = 1
  /\ qp[<<"general">>].correct = 1
  /\ qp[<<"general">>].difficulty = 1

\* C18: the adaptive prompt lists a topic as weak exactly when its
\* correct/attempts < 0.6 and as mastered exactly when correct/attempts > 0.8
\* with at least 3 attempts; a topic with 3 attempts and 1 correct is listed as
\* weak and has difficulty 1.
C18_WeakAndMastered ==
  LET qp == profile.performanceProfile.questionPerformance IN
  (profile.pc = "requested" /\ profile.prompt.kind = "adaptive") =>
    /\ profile.prompt.weakTopics \cup profile.prompt.masteredTopics \subseteq DOMAIN qp
    /\ \A t \in DOMAIN qp :
         /\ t \in profile.prompt.weakTopics <=> RateBelow(qp[t], 3, 5)
         /\ t \in profile.prompt.masteredTopics
              <=> (RateAbove(qp[t], 4, 5) /\ qp[t].attempts >= 3)
         /\ (qp[t].attempts = 3 /\ qp[t].correct = 1)
              => (t \in profile.prompt.weakTopics /\ qp[t].difficulty = 1)

\* Three attempts and one correct on average_rate_change, listed as weak
C18_Witness ==
  LET qp == profile.performanceProfile.questionPerformance
      t  == <<"average", "rate", "change">> IN
  /\ profile.pc = "requested"
  /\ profile.prompt.kind = "adaptive"
  /\ t \in DOMAIN qp
  /\ qp[t].attempts = 3
  /\ qp[t].correct = 1
  /\ qp[t].difficulty = 1
  /\ t \in profile.prompt.weakTopics
  /\ t \notin profile.prompt.masteredTopics

\* C19: when no stored quiz of the source is attempted, analyzePerformance
\* returns no profile and the prompt of the request is the standard prompt;
\* a request carries the adaptive prompt only when an attempted quiz of the
\* source is stored at the time it is made.
C19_StandardPromptWithoutAttempts ==
  profile.pc = "requested" =>
    /\ ~hasAttemptedQuizzes(quizStore, profile.sourceId)
         => /\ profile.performanceProfile = NoProfile
            /\ profile.prompt = QUIZ_GENERATION_PROMPT
    /\ profile.prompt.kind = "adaptive"
         => hasAttemptedQuizzes(quizStore, profile.sourceId)

\* The adaptive service asked while only an adaptive quiz not yet attempted
\* is stored for the source: the standard prompt
C19_Witness ==
  /\ profile.pc = "requested"
  /\ profile.service = "adaptive"
  /\ profile.sourceId = "r1"
  /\ profile.prompt = QUIZ_GENERATION_PROMPT
  /\ profile.performanceProfile = NoProfile
  /\ Len(quizStore) = 2
  /\ quizStore[1].sourceId = "r1" /\ ~quizStore[1].attempted
  /\ Len(quizStore[1].questionScores) = 3
  /\ quizStore[2].sourceId = "r2" /\ quizStore[2].attempted

----------------------------------------------------------------------------
(* The two store functions applied one after the other to both collections *)

\* Quizzes and analysis results as the services hand them to the store
QuizRecords ==
  { NewQuiz(kind, id, "r1",
            [kind |-> "array", items |-> <<Question("q1", "a"), Question("q2", "b")>>]) :
      kind \in QuizKinds, id \in 0..MaxClock }
ResultRecords ==
  { NewResult([FreeOp EXCEPT !.kind = kind, !.n = 1], outcome, id) :
      kind \in ImageKinds, outcome \in {"prose", "json"}, id \in 0..MaxClock }

StoreQuiz(quiz, quota) ==
  /\ Len(quizStore) < MaxStored
  /\ quizStore' = storeQuizResult(quizStore, quiz, quota)
  /\ UNCHANGED <<resultStore, clock, ops, img, hookVars, norm, rep, txt, tree, profile, pageVars>>

StoreResult(result, quota) ==
  /\ Len(resultStore) < MaxStored
  /\ resultStore' = storeAnalysisResult(resultStore, result, quota)
  /\ UNCHANGED <<quizStore, clock, ops, img, hookVars, norm, rep, txt, tree, profile, pageVars>>

NextStore ==
  \/ \E quiz \in QuizRecords, quota \in BOOLEAN : StoreQuiz(quiz, quota)
  \/ \E result \in ResultRecords, quota \in BOOLEAN : StoreResult(result, quota)

SpecStore == Init /\ [][NextStore]_vars

\* The list is the old one with one record added at its end
Appended(old, new) ==
  /\ Len(new) = Len(old) + 1
  /\ SubSeq(new, 1, Len(old)) = old

\* C20: storeAnalysisResult and storeQuizResult each append exactly one record
\* at the end of their own collection and leave the records stored before,
\* their order and the whole other collection as they were.  (A write the
\* storage refuses leaves both collections as they were.)
C20_AppendOnly ==
  [][/\ \A quiz \in QuizRecords :
          StoreQuiz(quiz, FALSE)
             => /\ Appended(quizStore, quizStore')
                /\ Last(quizStore') = quiz
                /\ resultStore' = resultStore
     /\ \A result \in ResultRecords :
          StoreResult(result, FALSE)
             => /\ Appended(resultStore, resultStore')
                /\ Last(resultStore') = result
                /\ quizStore' = quizStore
     /\ quizStore' # quizStore => Appended(quizStore, quizStore')
     /\ resultStore' # resultStore => Appended(resultStore, resultStore')]_vars

\* Two different quizzes and two different results, stored one after the other
C20_Witness ==
  /\ Len(quizStore) = 2
  /\ quizStore[1] # quizStore[2]
  /\ Len(resultStore) = 2
  /\ resultStore[1] # resultStore[2]

----------------------------------------------------------------------------
(* Claims about the generated ids and about overlapping writers *)

UniqueIds(list) ==
  \A i, j \in 1..Len(list) : i # j => list[i].id # list[j].id

\* C21: after any sequence of store operations no two records of the same
\* collection have the same generated id (so that a lookup by id finds one
\* record and the replacement by id at quiz completion changes one record).
C21_UniqueIds == UniqueIds(quizStore) /\ UniqueIds(resultStore)

\* Two different quizzes are stored under one id: the replacement by id of
\* UpdatedQuizzes would overwrite both of them with the completed quiz.
C21_Witness ==
  /\ Len(quizStore) = 2
  /\ quizStore[1].id = quizStore[2].id
  /\ quizStore[1] # quizStore[2]
  /\ LET done == UpdatedQuiz(quizStore[1], NoAnswers) IN
       UpdatedQuizzes(quizStore, done) = <<done, done>>

----------------------------------------------------------------------------
(* Quiz generations in flight while a stored quiz is taken and completed:  *)
(* the service continuations and the hook's handlers as the event loop     *)
(* runs them, one whole handler after the other.                           *)

TwoQuestions == [kind |-> "array", items |-> <<Question("q1", "a"), Question("q2", "b")>>]
UsableArg    == [id |-> "r1", given |-> TRUE, hasData |-> TRUE]
RaceBodies   == { b \in QuizBodies : ~b.readable \/ (b.cands /\ b.text = TwoQuestions) }

InitRace ==
  /\ quizStore = <<NewQuiz("quiz", 0, "r1", TwoQuestions)>>
  /\ resultStore = <<>>
  /\ clock = 0
  /\ ops = [o \in OpIds |-> FreeOp]
  /\ img = FreeOp
  /\ HookIdle
  /\ norm = NormIdle
  /\ rep = RepIdle
  /\ txt = TxtIdle
  /\ tree = TreeIdle
  /\ profile = ProfileIdle
  /\ PageIdle

NextRace ==
  \/ /\ \/ \E o \in OpIds, kind \in QuizKinds : CallQuizService(o, kind, "valid", UsableArg)
        \/ \E o \in OpIds : FetchSettle(o, "ok")
        \/ \E o \in OpIds, body \in RaceBodies, quota \in BOOLEAN : JsonSettle(o, body, quota)
        \/ Tick
     /\ UNCHANGED <<hookVars, norm, rep, txt, tree, profile, pageVars>>
  \/ loadQuiz(1)
  \/ handleAnswerSelect("a")
  \/ handleNextQuestion

SpecRace == InitRace /\ [][NextRace]_vars

\* The list after the continuations of two generations have run in the given
\* order, each with a response it can use and a write the storage accepts.
AfterBoth(first, second, list, t1, t2) ==
  LET body == [readable |-> TRUE, cands |-> TRUE, text |-> TwoQuestions]
      one  == QuizStage(first, body, list, FALSE, t1) IN
  QuizStage(second, body, one.list, FALSE, t2).list

\* The list after a generation's continuation and the completion of the quiz
\* the hook holds have run, in either order.
AfterSettleAndFinish(op, quiz, list, settleFirst, now) ==
  LET body == [readable |-> TRUE, cands |-> TRUE, text |-> TwoQuestions]
      done == UpdatedQuiz(quiz, userAnswers) IN
  IF settleFirst
  THEN UpdatedQuizzes(QuizStage(op, body, list, FALSE, now).list, done)
  ELSE QuizStage(op, body, UpdatedQuizzes(list, done), FALSE, now).list

Awaiting(op) == op.pc = "json" /\ op.httpOk

----------------------------------------------------------------------------
(* Claims about the scores recorded at quiz completion *)

\* C23: when a quiz is completed, a question the user never answered is never
\* recorded as correct: in every stored questionScores entry, correct = true
\* implies that an answer was selected for the question and that it equals
\* the question's correctAnswer, also for a question without a correctAnswer.
C23_UnansweredNeverCorrect ==
  \A i \in 1..Len(quizStore) :
    \A k \in 1..Len(quizStore[i].questionScores) :
      LET entry == quizStore[i].questionScores[k] IN
      entry.correct =>
        /\ Truthy(entry.userAnswer)
        /\ entry.userAnswer = entry.correctAnswer

\* A quiz finished without any answer is stored with a point.
C23_Witness ==
  /\ userAnswers = NoAnswers
  /\ quizCompleted
  /\ \E i \in 1..Len(quizStore) :
       /\ quizStore[i] = quizResult[1]
       /\ quizStore[i].attempted
       /\ quizStore[i].score.obtained > 0


\* getQuizScore 314-329: one point per key of userAnswers whose value is the
\* correctAnswer of the first question found under that key.  The key of an
\* answer given to a question without an id is the string "undefined", which
\* no question id is strictly equal to.
getQuizScore(result, answers) ==
  IF result = <<>> THEN [obtained |-> 0, total |-> 0, percentage |-> 0]
  ELSE LET questions == result[1].quizQuestions
           total     == Len(questions)
           counted   == { qId \in AnswerKeys :
                            /\ answers[qId] # Undef
                            /\ LET hits == { i \in 1..total :
                                               qId # Undef /\ questions[i].id = qId } IN
                               /\ hits # {}
                               /\ answers[qId]
                                    = questions[CHOOSE i \in hits :
                                                  \A j \in hits : i <= j].correctAnswer }
           obtained  == Cardinality(counted) IN
       [obtained |-> obtained, total |-> total,
        percentage |-> IF total = 0 THEN 0 ELSE Percentage(obtained, total)]

\* C24: at the moment a quiz is completed, the score getQuizScore shows
\* (obtained, total, percentage) is the score handleNextQuestion persists
\* with the quiz.
C24_ShownScoreIsPersistedScore ==
  [][ (handleNextQuestion /\ ~quizCompleted /\ quizCompleted') =>
        LET shown == getQuizScore(quizResult', userAnswers')
            kept  == quizResult'[1].score IN
        /\ shown.obtained = kept.obtained
        /\ shown.total = kept.total
        /\ shown.percentage = kept.percentage ]_vars

\* A completed quiz with both questions answered whose stored score differs
\* from the score shown for the same answers.
C24_Witness ==
  /\ quizCompleted
  /\ quizResult # <<>>
  /\ userAnswers["q1"] # Undef
  /\ \E i \in 1..Len(quizStore) : quizStore[i] = quizResult[1]
  /\ quizResult[1].score.total = 2
  /\ getQuizScore(quizResult, userAnswers).obtained # quizResult[1].score.obtained

----------------------------------------------------------------------------
(* The useQuiz hook with quiz generation: handleGenerateQuiz up to its     *)
(* await and from it on, next to the handlers that load and browse quizzes *)

\* A response with n questions
QuestionsText(n) ==
  [kind |-> "array",
   items |-> [k \in 1..n |-> Question(IF k = 1 THEN "q1" ELSE "q2", "a")]]

\* handleGenerateQuiz 49-56: the state is reset before anything is checked
ResetForGeneration ==
  /\ quizResult' = <<>>
  /\ currentQuestionIndex' = 0
  /\ userAnswers' = NoAnswers
  /\ quizCompleted' = FALSE

\* handleGenerateQuiz 48-106: the reset, the checks of the notes data and of
\* the key, whose failure is caught and ends the call at once (finally,
\* 165-167), else the service call is made and awaited.
GenerateQuizStart(o, arg, key, useAdaptive) ==
  /\ ops[o].pc = "free"
  /\ ResetForGeneration
  /\ IF ~arg.given \/ ~arg.hasData \/ KeyInvalid(key)
     THEN /\ generatingQuiz' = FALSE
          /\ UNCHANGED ops
     ELSE /\ generatingQuiz' = TRUE
          /\ ops' = [ops EXCEPT ![o] =
               [FreeOp EXCEPT
                  !.kind = IF useAdaptive /\ hasAttemptedQuizzes(quizStore, arg.id)
                           THEN "adaptive" ELSE "quiz",
                  !.arg = arg.id, !.pc = "fetch"]]
  /\ UNCHANGED <<quizStore, resultStore, clock, img, norm, rep, txt, tree, profile,
                 images, uploading, uploads>>

\* handleGenerateQuiz 112-167 once the awaited service call has returned: a
\* success becomes the current quiz, a failure an error message, and in
\* either case the flag is cleared.
GenerateQuizReturned(o, quiz) ==
  /\ generatingQuiz' = FALSE
  /\ IF ops'[o].ret.success
     THEN /\ quizResult' = <<quiz>>
          /\ UNCHANGED <<currentQuestionIndex, userAnswers, quizCompleted>>
     ELSE UNCHANGED hookVars

\* The request of a call fails or is answered
GenerateQuizFetched(o, outcome) ==
  /\ FetchSettle(o, outcome)
  /\ IF outcome = "network"
     THEN GenerateQuizReturned(o, <<>>)
     ELSE UNCHANGED <<hookVars, generatingQuiz>>
  /\ UNCHANGED <<norm, rep, txt, tree, profile, images, uploading, uploads>>

\* The response body of a call is read: the service stores and returns the
\* quiz or returns a failure, and the hook goes on with what it returned.
GenerateQuizSettled(o, body, quota) ==
  /\ JsonSettle(o, body, quota)
  /\ GenerateQuizReturned(o, NewQuiz(ops[o].kind, clock, ops[o].arg, body.text))
  /\ UNCHANGED <<norm, rep, txt, tree, profile, images, uploading, uploads>>

\* initializeWithSavedQuizzes 26-40: the stored quiz of the latest timestamp
\* becomes the current quiz; nothing else is reset.
initializeWithSavedQuizzes ==
  /\ quizStore # <<>>
  /\ LET latest == CHOOSE i \in 1..Len(quizStore) :
                     \A j \in 1..Len(quizStore) :
                        \/ quizStore[j].id < quizStore[i].id
                        \/ quizStore[j].id = quizStore[i].id /\ i <= j IN
     quizResult' = <<quizStore[latest]>>
  /\ UNCHANGED <<currentQuestionIndex, userAnswers, quizCompleted>>
  /\ UNCHANGED <<svcVars, norm, rep, txt, tree, profile, pageVars>>

\* The stored lists the hook is started on: a quiz of MaxQuestions questions
\* and a later quiz of one question, taken already or not.
HookQuizLists ==
  { <<NewQuiz("quiz", 0, "r1", QuestionsText(MaxQuestions)),
      IF taken THEN UpdatedQuiz(NewQuiz("quiz", 1, "r1", QuestionsText(1)), NoAnswers)
      ELSE NewQuiz("quiz", 1, "r1", QuestionsText(1))>> : taken \in BOOLEAN }

HookBodies == { b \in QuizBodies : ~b.readable }
              \cup { [readable |-> TRUE, cands |-> TRUE, text |-> QuestionsText(1)] }

InitHook ==
  /\ quizStore \in HookQuizLists
  /\ resultStore = <<>>
  /\ clock = MaxClock + 1
  /\ ops = [o \in OpIds |-> FreeOp]
  /\ img = FreeOp
  /\ HookIdle
  /\ norm = NormIdle
  /\ rep = RepIdle
  /\ txt = TxtIdle
  /\ tree = TreeIdle
  /\ profile = ProfileIdle
  /\ PageIdle

NextHook ==
  \/ \E o \in OpIds, arg \in AnalysisArgs, key \in Keys, useAdaptive \in BOOLEAN :
       GenerateQuizStart(o, arg, key, useAdaptive)
  \/ \E o \in OpIds, outcome \in FetchOutcomes : GenerateQuizFetched(o, outcome)
  \/ \E o \in OpIds, body \in HookBodies, quota \in BOOLEAN : GenerateQuizSettled(o, body, quota)
  \/ initializeWithSavedQuizzes
  \/ \E i \in 1..(MaxOps + 2) : loadQuiz(i)
  \/ resetQuiz
  \/ handlePreviousQuestion
  \/ handleNextQuestion

SpecHook == InitHook /\ [][NextHook]_vars

\* C25: after any sequence of useQuiz operations, whenever the current quiz
\* has at least one question, 0 <= currentQuestionIndex < its number of
\* questions.
C25_IndexInRange ==
  (quizResult # <<>> /\ Len(quizResult[1].quizQuestions) >= 1) =>
     /\ 0 <= currentQuestionIndex
     /\ currentQuestionIndex < Len(quizResult[1].quizQuestions)

\* The current quiz is the attempted one-question quiz while the index is
\* still the one reached in the longer quiz.
C25_Witness ==
  /\ quizResult # <<>>
  /\ quizResult[1].attempted
  /\ Len(quizResult[1].quizQuestions) = 1
  /\ currentQuestionIndex = MaxQuestions - 1


\* C26: every score persisted at quiz completion has total equal to the
\* number of questions, 0 <= obtained <= total and percentage an integer in
\* 0..100 equal to obtained / total * 100 rounded, also when the quiz has no
\* questions.
C26_PersistedScoreWellFormed ==
  \A i \in 1..Len(quizStore) :
    quizStore[i].attempted =>
      LET score == quizStore[i].score IN
      /\ score.total = Len(quizStore[i].quizQuestions)
      /\ 0 <= score.obtained /\ score.obtained <= score.total
      /\ score.percentage \in 0..100
      /\ score.total > 0 =>
           score.percentage = (200 * score.obtained + score.total) \div (2 * score.total)

\* A quiz without questions has been completed and stored.
C26_Witness ==
  \E i \in 1..Len(quizStore) :
    /\ quizStore[i].attempted
    /\ quizStore[i].quizQuestions = <<>>
    /\ quizStore[i].score.percentage = NaN

----------------------------------------------------------------------------
(* The storage layer that doubles backslashes on write and halves them on  *)
(* read, with the quiz completion of useQuiz writing to the same key.      *)
(* quizStore holds here what is persisted: the question texts as the JSON  *)
(* string literals setItem is given.                                       *)

RECURSIVE DoubleBackslashes(_)
\* processQuizForStorage 50-52: question.question.replace(/\\/g, "\\\\")
DoubleBackslashes(s) ==
  IF s = <<>> THEN s
  ELSE (IF s[1] = BS THEN <<BS, BS>> ELSE <<s[1]>>) \o DoubleBackslashes(Tail(s))

\* A list of quizzes with F applied to the text of every question
MapQuestionTexts(list, F(_)) ==
  [i \in 1..Len(list) |->
     [list[i] EXCEPT !.quizQuestions =
        [k \in 1..Len(list[i].quizQuestions) |->
           [list[i].quizQuestions[k] EXCEPT !.question = F(@)]]]]

\* JSON.stringify and JSON.parse of a quiz list, text by text
Stringified(list) == MapQuestionTexts(list, stringify)
Parsed(list) == LET value(s) == ParseLiteral(s).value IN MapQuestionTexts(list, value)

\* processQuizForStorage 40-76
processQuizForStorage(quiz) == MapQuestionTexts(<<quiz>>, DoubleBackslashes)[1]

\* processQuizzesFromStorage 140-177
processQuizzesFromStorage(quizzes) == MapQuestionTexts(quizzes, HalveBackslashes)

\* getStoredQuizzes 180-192
getStoredQuizzes(persisted) == processQuizzesFromStorage(Parsed(persisted))

\* A quiz of one question with the given text, as a quiz service builds it
TextQuiz(id, text) ==
  [NewQuiz("quiz", id, "r1", [kind |-> "array", items |-> <<Question("q1", "a")>>])
     EXCEPT !.quizQuestions =
       << [id |-> "q1", correctAnswer |-> "a", nul |-> FALSE, question |-> text] >>]

QuestionTexts == UNION { [1..n -> {"x", BS}] : n \in 1..MaxValue }

\* storeQuizResult 79-123 of this layer: the persisted list is parsed as it
\* is, the quiz is processed for storage and appended, the list is written.
\* txt.input keeps the texts passed, in the order of the calls.
StoreTextQuiz(text) ==
  /\ Len(quizStore) < MaxStored
  /\ LET quiz == TextQuiz(Len(quizStore), text) IN
     quizStore' = Stringified(Append(Parsed(quizStore), processQuizForStorage(quiz)))
  /\ txt' = [txt EXCEPT !.pc = "stored", !.input = Append(@, text)]
  /\ UNCHANGED <<resultStore, clock, ops, img, hookVars, norm, rep, tree, profile, pageVars>>

\* loadQuiz 283-308 with a quiz of the list getStoredQuizzes returns, not yet
\* attempted
LoadStoredQuiz(i) ==
  /\ i \in 1..Len(quizStore)
  /\ ~quizStore[i].attempted
  /\ quizResult' = <<getStoredQuizzes(quizStore)[i]>>
  /\ currentQuestionIndex' = 0
  /\ userAnswers' = NoAnswers
  /\ quizCompleted' = FALSE
  /\ UNCHANGED <<svcVars, norm, rep, txt, tree, profile, pageVars>>

\* handleNextQuestion 178-235 on the last question: the list getStoredQuizzes
\* returns, with the completed quiz put in by id, is stringified and written
\* as it is.
FinishStoredQuiz ==
  /\ quizResult # <<>>
  /\ ~quizCompleted
  /\ currentQuestionIndex >= Len(quizResult[1].quizQuestions) - 1
  /\ LET updatedQuiz == UpdatedQuiz(quizResult[1], userAnswers) IN
     /\ quizStore' = Stringified(UpdatedQuizzes(getStoredQuizzes(quizStore), updatedQuiz))
     /\ quizResult' = <<updatedQuiz>>
  /\ quizCompleted' = TRUE
  /\ UNCHANGED <<currentQuestionIndex, userAnswers>>
  /\ UNCHANGED <<resultStore, clock, ops, img, norm, rep, txt, tree, profile, pageVars>>

NextEscape ==
  \/ \E text \in QuestionTexts : StoreTextQuiz(text)
  \/ \E i \in 1..MaxStored : LoadStoredQuiz(i)
  \/ handleAnswerSelect("a")
  \/ FinishStoredQuiz

SpecEscape == Init /\ [][NextEscape]_vars

\* C27: the question text getStoredQuizzes returns for a quiz is the text
\* passed to storeQuizResult, after any sequence of store, read and
\* quiz-completion writes and for any number of consecutive backslashes.
C27_StoredTextRoundTrip ==
  \A i \in 1..Len(quizStore) :
    getStoredQuizzes(quizStore)[i].quizQuestions[1].question = txt.input[i]

\* A quiz has been completed while a quiz whose text has two consecutive
\* backslashes is stored; that text now reads back with one.
C27_Witness ==
  /\ Len(quizStore) = 2
  /\ quizStore[1].attempted
  /\ txt.input[2] = <<BS, BS>>
  /\ getStoredQuizzes(quizStore)[2].quizQuestions[1].question = <<BS>>

----------------------------------------------------------------------------
(* Claims about what a stage reports of its write *)

\* C28: whenever a stage has returned a result with success = true, the
\* record with the id of the returned value is in the persisted collection:
\* a failed write to local storage is never reported as a success.
C28_SuccessIsStored ==
  /\ \A o \in OpIds :
       (ops[o].pc = "returned" /\ ops[o].ret.success) =>
          \E i \in 1..Len(quizStore) : quizStore[i].id = ops[o].ret.id
  /\ (img.pc = "returned" /\ img.ret.success) =>
        \E i \in 1..Len(resultStore) : resultStore[i].id = img.ret.id

\* A quiz generation has returned success while no quiz is stored.
C28_Witness ==
  /\ quizStore = <<>>
  /\ \E o \in OpIds : ops[o].pc = "returned" /\ ops[o].ret.success

----------------------------------------------------------------------------
(* Claims about the flags of the hooks *)

InFlight(op) == op.pc \in {"fetch", "json"}

\* C29: generatingQuiz is true at every moment at which a request started by
\* handleGenerateQuiz is still in flight, also when two calls overlap, and it
\* is false once every started request has finished.
C29_FlagWhileInFlight ==
  generatingQuiz <=> \E o \in OpIds : InFlight(ops[o])

\* One call has returned and cleared the flag while the other call's request
\* is still in flight.
C29_Witness ==
  /\ ~generatingQuiz
  /\ \E o1, o2 \in OpIds :
       /\ ops[o1].pc = "returned"
       /\ InFlight(ops[o2])

\* ---------------------------------------------------------------------------
\* useImageUpload: processWithGemini and processBatchWithGemini
\* (src/src/hooks/useImageUpload.js). `images` is the array of the hook's
\* state: image objects, each with an identity (id) and a status. A call
\* copies the array, not the objects (useImageUpload.js:62, 124): a status it
\* assigns is the status of the object wherever the object is held, and
\* setImages([...updatedImages]) puts the array the call captured back into
\* the state. `uploads` is empty or holds the one call made: kind, position in
\* the code (pc), the index i of the image awaited, the captured array
\* (updatedImages, dropped when the call ends) and how the call ended. The
\* buttons that start a call are disabled while uploading is true
\* (src/src/App.jsx:120, src/src/pages/ImageUpload.jsx:1031).
\* ---------------------------------------------------------------------------

InitialStatuses == {"pending", "complete", "error"}

ImageIds == 1..(2 * MaxImages)

Image(id, status) == [id |-> id, status |-> status]

ImageLists ==
  UNION {{[j \in 1..n |-> Image(j, f[j])] : f \in [1..n -> InitialStatuses]} :
         n \in 0..MaxImages}

UploadCall(kind, pc, i, updatedImages, result) ==
  [kind |-> kind, pc |-> pc, i |-> i, updatedImages |-> updatedImages,
   result |-> result]

UploadAwaited == uploads /= <<>> /\ uploads[1].pc = "await"

IdsOf(list) == {list[j].id : j \in 1..Len(list)}

\* updatedImages[i].status = status: the object changes in every array that
\* holds it.
SetStatus(list, id, status) ==
  [j \in 1..Len(list) |->
     IF list[j].id = id THEN Image(id, status) ELSE list[j]]

\* for (let i = from; i < images.length; i++) { if complete continue; ... }:
\* the index of the next image the loop sends, 0 when the loop ends.
NextToProcess(list, from) ==
  LET rest == {j \in from..Len(list) : list[j].status /= "complete"}
  IN IF rest = {} THEN 0 ELSE CHOOSE j \in rest : \A k \in rest : j <= k

\* The loop of processWithGemini from index `from` up to its next await, or to
\* the end of the function (finally: setUploading(false)).
ProcessLoop(list, from) ==
  LET j == NextToProcess(list, from)
      marked == SetStatus(list, list[j].id, "processing")
  IN IF j = 0
       THEN /\ images' = list
            /\ uploading' = FALSE
            /\ uploads' = <<UploadCall("single", "done", 0, <<>>, "returned")>>
       ELSE /\ images' = marked
            /\ uploading' = TRUE
            /\ uploads' = <<UploadCall("single", "await", j, marked, "none")>>

\* forEach: status "processing" becomes `to` (useImageUpload.js:150-154,
\* 176-180).
SettleProcessing(list, to) ==
  [j \in 1..Len(list) |->
     IF list[j].status = "processing" THEN Image(list[j].id, to) ELSE list[j]]

\* A new object gets an identity no live object has.
handleImageChange ==
  /\ Len(images) < MaxImages
  /\ LET live == IdsOf(images) \cup
                 (IF uploads = <<>> THEN {} ELSE IdsOf(uploads[1].updatedImages))
         free == ImageIds \ live
         id == CHOOSE k \in free : \A m \in free : k <= m
     IN images' = Append(images, Image(id, "pending"))
  /\ UNCHANGED <<svcVars, hookVars, norm, rep, txt, tree, profile,
                 generatingQuiz, uploading, uploads>>

removeImage(index) ==
  /\ index \in 1..Len(images)
  /\ images' = SubSeq(images, 1, index - 1)
                  \o SubSeq(images, index + 1, Len(images))
  /\ UNCHANGED <<svcVars, hookVars, norm, rep, txt, tree, profile,
                 generatingQuiz, uploading, uploads>>

processWithGemini ==
  /\ ~uploading
  /\ ~UploadAwaited
  /\ IF Len(images) = 0
       THEN /\ uploads' = <<UploadCall("single", "done", 0, <<>>, "refused")>>
            /\ UNCHANGED <<images, uploading>>
       ELSE ProcessLoop(images, 1)
  /\ UNCHANGED <<svcVars, hookVars, norm, rep, txt, tree, profile,
                 generatingQuiz>>

\* The continuation after await processImageWithGemini(images[i].file). The
\* service catches every error and returns {success: false, error}
\* (notesProcessingService.js); "callbackThrows" is a success whose
\* onResultsUpdated callback throws (useImageUpload.js:84-86), before the
\* setImages of line 92.
SingleOutcomes == {"success", "failure", "callbackThrows"}

processWithGeminiSettled(outcome) ==
  /\ UploadAwaited
  /\ uploads[1].kind = "single"
  /\ LET c == uploads[1]
         id == c.updatedImages[c.i].id
         status == IF outcome = "failure" THEN "error" ELSE "complete"
     IN IF outcome = "callbackThrows"
          THEN /\ images' = SetStatus(images, id, status)
               /\ uploading' = FALSE
               /\ uploads' = <<UploadCall("single", "done", 0, <<>>, "caught")>>
          ELSE ProcessLoop(SetStatus(c.updatedImages, id, status), c.i + 1)
  /\ UNCHANGED <<svcVars, hookVars, norm, rep, txt, tree, profile,
                 generatingQuiz>>

processBatchWithGemini ==
  /\ ~uploading
  /\ ~UploadAwaited
  /\ IF Len(images) = 0
       THEN /\ uploads' = <<UploadCall("batch", "done", 0, <<>>, "refused")>>
            /\ UNCHANGED <<images, uploading>>
       ELSE LET marked == [j \in 1..Len(images) |->
                             IF images[j].status /= "complete"
                               THEN Image(images[j].id, "processing")
                               ELSE images[j]]
                imageFiles == {j \in 1..Len(marked) :
                                 marked[j].status /= "complete"}
            IN /\ images' = marked
               /\ IF imageFiles = {}
                    THEN /\ uploading' = FALSE
                         /\ uploads' = <<UploadCall("batch", "done", 0, <<>>,
                                                    "returned")>>
                    ELSE /\ uploading' = TRUE
                         /\ uploads' = <<UploadCall("batch", "await", 0,
                                                    marked, "none")>>
  /\ UNCHANGED <<svcVars, hookVars, norm, rep, txt, tree, profile,
                 generatingQuiz>>

\* The outcome of processBatchImagesWithTwoStepGemini(imageFiles). The hook
\* imports the function from ../service/geminiService (useImageUpload.js:2-5).
\* The export list of src/src/service/geminiService.js:9-19 does not hold it:
\* a build that binds the missing import to undefined makes the call throw a
\* TypeError inside the try ("thrown"). With the export list of
\* src/unnamed/part_013:10-11 the service runs and returns a result;
\* "callbackThrows" is a success whose onResultsUpdated callback throws
\* (useImageUpload.js:167-169), after the setImages of line 155.
BatchOutcomes == {"success", "failure", "callbackThrows", "thrown"}

processBatchWithGeminiSettled(outcome) ==
  /\ UploadAwaited
  /\ uploads[1].kind = "batch"
  /\ LET c == uploads[1]
     IN /\ images' =
             CASE outcome = "thrown" -> images
               [] outcome = "failure" ->
                    SettleProcessing(c.updatedImages, "error")
               [] OTHER -> SettleProcessing(c.updatedImages, "complete")
        /\ uploads' = <<UploadCall("batch", "done", 0, <<>>,
                          IF outcome \in {"thrown", "callbackThrows"}
                            THEN "caught" ELSE "returned")>>
  /\ uploading' = FALSE
  /\ UNCHANGED <<svcVars, hookVars, norm, rep, txt, tree, profile,
                 generatingQuiz>>

InitUpload ==
  /\ quizStore = <<>>
  /\ resultStore = <<>>
  /\ clock = 0
  /\ ops = [o \in OpIds |-> FreeOp]
  /\ img = FreeOp
  /\ HookIdle
  /\ norm = NormIdle
  /\ rep = RepIdle
  /\ txt = TxtIdle
  /\ tree = TreeIdle
  /\ profile = ProfileIdle
  /\ generatingQuiz = FALSE
  /\ images \in ImageLists
  /\ uploading = FALSE
  /\ uploads = <<>>

NextUpload ==
  \/ handleImageChange
  \/ \E index \in 1..MaxImages : removeImage(index)
  \/ processWithGemini
  \/ \E outcome \in SingleOutcomes : processWithGeminiSettled(outcome)
  \/ processBatchWithGemini
  \/ \E outcome \in BatchOutcomes : processBatchWithGeminiSettled(outcome)

SpecUpload == InitUpload /\ [][NextUpload]_vars

UploadFinishes == UploadAwaited /\ uploads'[1].pc = "done"

====
